---- MODULE Spec2Model ----
(***************************************************************************)
(* Model of the ospine scan engine: the RateLimiter (types.rs), the global *)
(* connection Semaphore, scan_one / scan_ports (scanner.rs) and the target *)
(* fan-out of main (main.rs).                                              *)
(*                                                                         *)
(* Time is discrete: one tick is 1/Second of a second.  An Instant is      *)
(* opaque in the code, which only ever reads now - window_start, so the    *)
(* limiter's window_start is kept as its age window_age = now -            *)
(* window_start, saturated at Second (every age >= 1s takes the same       *)
(* branch), and a sleeping task keeps the time it still has to sleep.      *)
(***************************************************************************)
EXTENDS Integers, Sequences, FiniteSets, TLC

VARIABLES
    targets,          \* main: the resolved target list
    ports,            \* main: the parsed port list (sorted, de-duplicated)
    concurrency,      \* ScanConfig.concurrency
    max_connections,  \* capacity of the global Semaphore
    rate_per_sec,     \* RateInner.rate_per_sec
    window_age,       \* now - RateInner.window_start, saturated at Second
    count_in_window,  \* RateInner.count_in_window
    rl_guard,         \* owner of RateLimiter.inner's MutexGuard, or NoTask
    sleep_left,       \* per task: time left of tokio::time::sleep(sleep_dur)
    permits,          \* available permits of global_limit
    held,             \* tasks that own an OwnedSemaphorePermit
    pc,               \* per port task: where it is in scan_ports' closure
    tstate,           \* per target: queued / scanning / returned
    next_port,        \* per target: index of the next port stream::iter yields
    results,          \* per target: the shared results vector
    out,              \* per target: the list scan_ports returned
    slept,            \* history: the task has slept inside acquire()
    first_window,     \* history: no window reset since RateLimiter::new
    recent,           \* history: acquire() returns in each of the last Second ticks
    passive,          \* ScanConfig.passive
    det_pc,           \* identify_and_banner: the step the detector is at
    wire,             \* the probes written to the TcpStream, in order
    rx,               \* the bytes the passive read_some returned (empty: Err)
    det_out,          \* what identify_and_banner returned
    connect_res,      \* history: the outcome of scan_one's connect
    n_targets,        \* main: targets.len()
    yielded,          \* main: targets target_stream has yielded to buffer_unordered
    completed,        \* main: scan_ports futures that have returned
    tracked,          \* history: the target an observer follows
    tracked_scans,    \* history: times the followed target's scan_ports was started
    tracked_done,     \* history: the followed target's scan_ports has returned
    json,             \* main: --json
    open_only,        \* main: --open-only
    main_pc,          \* main: where the streaming loop is
    taken,            \* main: targets whose list in_flight.next() has yielded
    cur_list,         \* main: what is left of the list being iterated
    first_json_item,  \* main: first_json_item
    stdout,           \* the text printed to standard output
    journal,          \* the text written to the temporary NDJSON file
    artifact,         \* the text written to save_file
    emitted,          \* history: the results that went through the loop, in order
    attempt,          \* main: open() calls made for the temporary file
    tmp_path,         \* main: tmp_path, the attempt number standing for the name
    tmp_files,        \* the temporary directory: <<name, owner>> of the names tried
    stderr,           \* the messages printed to standard error
    finished          \* history: the targets in the order scan_ports returned

vars == <<targets, ports, concurrency, max_connections, rate_per_sec, window_age,
          count_in_window, rl_guard, sleep_left, permits, held, pc, tstate,
          next_port, results, out, slept, first_window, recent,
          passive, det_pc, wire, rx, det_out, connect_res,
          n_targets, yielded, completed, tracked, tracked_scans, tracked_done,
          json, open_only, main_pc, taken, cur_list, first_json_item, stdout, journal,
          artifact, emitted, attempt, tmp_path, tmp_files, stderr, finished>>

cfgVars == <<targets, ports, concurrency, max_connections, rate_per_sec>>
limiterVars == <<window_age, count_in_window, rl_guard, sleep_left>>
histVars == <<slept, first_window, recent>>
semVars == <<permits, held>>
targetVars == <<tstate, next_port, results, out>>
detVars == <<passive, det_pc, wire, rx, det_out, connect_res>>
fanVars == <<n_targets, yielded, completed, tracked, tracked_scans, tracked_done>>
tmpVars == <<attempt, tmp_path, tmp_files, stderr>>
mainVars == <<json, open_only, main_pc, taken, cur_list, first_json_item, stdout, journal,
              artifact, emitted, tmpVars, finished>>
\* what the engine's port tasks and the limiter leave alone
otherVars == <<detVars, fanVars, mainVars>>

(***************************************************************************)
(* Bounds of the model and constants of the program.                       *)
(***************************************************************************)
\* --rate is drawn from 0..MaxRate
MaxRate == 2
\* --max-connections is drawn from 1..MaxCapacity
MaxCapacity == 2
\* --concurrency is drawn from 0..MaxConcurrency
MaxConcurrency == 2
\* most port tasks (targets times ports) of a run of the engine
MaxTasks == 3
\* most port tasks of a run of the limiter alone
MaxCallers == 4

\* Duration::from_secs(1), in ticks
Second == 2
\* const MAX_TARGET_CONCURRENCY
MAX_TARGET_CONCURRENCY == 1000

TargetNames == <<"h1", "h2">>
PortSeq == <<22, 80, 443>>

Min(a, b) == IF a < b THEN a ELSE b
Max(a, b) == IF a > b THEN a ELSE b

\* Option<T>
None == <<>>
Some(x) == <<x>>

NoTask == <<>>

\* parse_ports returns its list sorted and de-duplicated
PortLists == { SubSeq(PortSeq, 1, n) : n \in 1..Len(PortSeq) }

TargetLists == { SubSeq(TargetNames, 1, n) : n \in 1..Len(TargetNames) }

TaskIds == (1..Len(targets)) \X (1..Len(ports))
TasksOf(ti) == { t \in TaskIds : t[1] = ti }

(***************************************************************************)
(* RateLimiter (types.rs)                                                  *)
(***************************************************************************)
\* faulty variant of RateLimiterNew: the rate is taken as given, 0 included
RateLimiterNew_NoFloor(rate) == rate

\* RateLimiter::new: rate_per_sec.max(1)
RateLimiterNew(rate) == Max(rate, 1)

\* Duration::saturating_sub
SaturatingSub(a, b) == IF a >= b THEN a - b ELSE 0

\* faulty variant of WindowElapsed: any elapsed time ends the window
WindowElapsed_Early(elapsed) == elapsed > 0

\* if elapsed >= Duration::from_secs(1)
WindowElapsed(elapsed) == elapsed >= Second

\* faulty variant of TokenAvailable: <= for <
TokenAvailable_OffByOne(count) == count <= rate_per_sec

\* if guard.count_in_window < guard.rate_per_sec
TokenAvailable(count) == count < rate_per_sec

\* self.inner.lock().await
MutexFree == rl_guard = NoTask

\* where a task is while inside acquire()
RlStates == {"rl_lock", "rl_locked", "rl_sleep"}

\* acquire(): let mut guard = self.inner.lock().await
RlLock(t) ==
    /\ pc[t] = "rl_lock"
    /\ MutexFree
    /\ rl_guard' = t
    /\ pc' = [pc EXCEPT ![t] = "rl_locked"]
    /\ UNCHANGED <<cfgVars, window_age, count_in_window, sleep_left, semVars,
                   targetVars>>

\* faulty variant of RlCheck: the reset clears the count and leaves window_start
RlCheck_KeepsWindowStart(t) ==
    /\ pc[t] = "rl_locked"
    /\ rl_guard = t
    /\ LET elapsed == window_age
           reset == WindowElapsed(elapsed)
           count == IF reset THEN 0 ELSE count_in_window
       IN /\ window_age' = window_age
          /\ IF TokenAvailable(count)
             THEN /\ count_in_window' = count + 1
                  /\ pc' = [pc EXCEPT ![t] = "sem_wait"]
                  /\ UNCHANGED sleep_left
             ELSE /\ count_in_window' = count
                  /\ sleep_left' = [sleep_left EXCEPT ![t] = SaturatingSub(Second, elapsed)]
                  /\ pc' = [pc EXCEPT ![t] = "rl_sleep"]
    /\ rl_guard' = NoTask
    /\ UNCHANGED <<cfgVars, semVars, targetVars>>

\* acquire(): one pass through the locked section of the loop, to the return
\* or to the sleep
RlCheck(t) ==
    /\ pc[t] = "rl_locked"
    /\ rl_guard = t
    /\ LET elapsed == window_age
           reset == WindowElapsed(elapsed)
           age == IF reset THEN 0 ELSE window_age
           count == IF reset THEN 0 ELSE count_in_window
       IN /\ window_age' = age
          /\ IF TokenAvailable(count)
             THEN /\ count_in_window' = count + 1
                  /\ pc' = [pc EXCEPT ![t] = "sem_wait"]
                  /\ UNCHANGED sleep_left
             ELSE /\ count_in_window' = count
                  /\ sleep_left' = [sleep_left EXCEPT ![t] = SaturatingSub(Second, elapsed)]
                  /\ pc' = [pc EXCEPT ![t] = "rl_sleep"]
    /\ rl_guard' = NoTask
    /\ UNCHANGED <<cfgVars, semVars, targetVars>>

\* acquire(): tokio::time::sleep(sleep_dur).await completes, loop again
RlWake(t) ==
    /\ pc[t] = "rl_sleep"
    /\ sleep_left[t] = 0
    /\ pc' = [pc EXCEPT ![t] = "rl_lock"]
    /\ UNCHANGED <<cfgVars, window_age, count_in_window, rl_guard, sleep_left, semVars,
                   targetVars>>

\* the clock advances by one tick: Instant::now() is one tick later, every
\* running sleep has one tick less to go
Tick ==
    /\ window_age' = Min(window_age + 1, Second)
    /\ sleep_left' = [t \in DOMAIN sleep_left |-> SaturatingSub(sleep_left[t], 1)]
    /\ UNCHANGED <<cfgVars, count_in_window, rl_guard, semVars, pc, targetVars>>

(***************************************************************************)
(* The global Semaphore (main.rs) and scan_one (scanner.rs)                *)
(***************************************************************************)
\* faulty variant of PermitAvailable: the permit count is not consulted
PermitAvailable_Always == TRUE

\* Semaphore::acquire_owned: a permit is available
PermitAvailable == permits > 0

\* faulty variant of DropPermit: the permit is forgotten, not returned
DropPermit_Leak(t) ==
    /\ held' = held \ {t}
    /\ permits' = permits

\* dropping _global_permit when scan_one returns
DropPermit(t) ==
    /\ held' = held \ {t}
    /\ permits' = permits + 1

ScanResult(target, port, open, protocol, banner, error) ==
    [target |-> target, port |-> port, open |-> open, protocol |-> protocol,
     banner |-> banner, error |-> error]

Target(t) == targets[t[1]]
Port(t) == ports[t[2]]

\* e.to_string() of the io::Error of TcpStream::connect
ConnectErrors == {"Connection refused"}

\* what identify_and_banner can return: (Option<Protocol>, Option<String>)
DetectorResults == { <<Some("Unknown"), None>> }

\* scan_one: cfg.global_limit.clone().acquire_owned().await
SemAcquire(t) ==
    /\ pc[t] = "sem_wait"
    /\ PermitAvailable
    /\ permits' = permits - 1
    /\ held' = held \cup {t}
    /\ pc' = [pc EXCEPT ![t] = "connecting"]
    /\ UNCHANGED <<cfgVars, limiterVars, targetVars>>

\* the closure's match on scan_one's result
TaskItem(t, res) ==
    IF res[1] = "Ok" THEN res[2]
    ELSE ScanResult(Target(t), Port(t), FALSE, None, None,
                    Some(<<"task error: ", res[2]>>))

\* scan_one returns res, dropping _global_permit; the closure pushes the item:
\* results_inner.lock().await.push(item)
Finish(t, res) ==
    /\ DropPermit(t)
    /\ results' = [results EXCEPT ![t[1]] = Append(@, TaskItem(t, res))]
    /\ pc' = [pc EXCEPT ![t] = "done"]
    /\ UNCHANGED <<cfgVars, limiterVars, tstate, next_port, out>>

\* faulty variant of ConnectTimeout: the error is Elapsed's own text
ConnectTimeout_ElapsedText(t) ==
    /\ pc[t] = "connecting"
    /\ Finish(t, <<"Ok", ScanResult(Target(t), Port(t), FALSE, None, None,
                                     Some("deadline has elapsed"))>>)

\* scan_one: Err(_) of time::timeout: the connect timed out
ConnectTimeout(t) ==
    /\ pc[t] = "connecting"
    /\ Finish(t, <<"Ok", ScanResult(Target(t), Port(t), FALSE, None, None,
                                     Some("timeout"))>>)

\* faulty variant of ConnectErrorAs: the cause is dropped
ConnectErrorAs_NoCause(t, e) ==
    /\ pc[t] = "connecting"
    /\ Finish(t, <<"Ok", ScanResult(Target(t), Port(t), FALSE, None, None, None)>>)

\* scan_one: Ok(Err(e)): the connect failed with the io::Error that prints as e
ConnectErrorAs(t, e) ==
    /\ pc[t] = "connecting"
    /\ Finish(t, <<"Ok", ScanResult(Target(t), Port(t), FALSE, None, None, Some(e))>>)

\* scan_one: Ok(Err(e)): the connect failed
ConnectError(t) == \E e \in ConnectErrors : ConnectErrorAs(t, e)

\* scan_one: Ok(Ok(stream)): connected, identify_and_banner starts
ConnectOk(t) ==
    /\ pc[t] = "connecting"
    /\ pc' = [pc EXCEPT ![t] = "detecting"]
    /\ UNCHANGED <<cfgVars, limiterVars, semVars, targetVars>>

\* scan_one: identify_and_banner returned the pair d, the open result is built
DetectedAs(t, d) ==
    /\ pc[t] = "detecting"
    /\ Finish(t, <<"Ok", ScanResult(Target(t), Port(t), TRUE, d[1], d[2], None)>>)

\* scan_one: identify_and_banner returned, the open result is built
Detected(t) == \E d \in DetectorResults : DetectedAs(t, d)

(***************************************************************************)
(* scan_ports (scanner.rs) and the target fan-out of main (main.rs)        *)
(***************************************************************************)
InFlight(ti) == { t \in TasksOf(ti) : pc[t] \notin {"queued", "done"} }

\* for_each_concurrent(cfg.concurrency, ..): a limit of 0 is no limit
SlotAvailable(ti) ==
    \/ concurrency = 0
    \/ Cardinality(InFlight(ti)) < concurrency

\* faulty variant of SortByPort: the list is returned as pushed
SortByPort_Unsorted(list) == list

\* out.sort_by_key(|r| r.port): a stable sort, here by insertion
RECURSIVE InsertByPort(_, _)
InsertByPort(r, sorted) ==
    IF sorted = <<>> THEN <<r>>
    ELSE IF r.port < Head(sorted).port THEN <<r>> \o sorted
    ELSE <<Head(sorted)>> \o InsertByPort(r, Tail(sorted))

RECURSIVE SortByPort(_)
SortByPort(list) ==
    IF list = <<>> THEN <<>>
    ELSE InsertByPort(list[Len(list)], SortByPort(SubSeq(list, 1, Len(list) - 1)))

\* faulty variant of target_concurrency: the ceiling is left out
target_concurrency_NoCeiling(n) == Max(n, 1)

\* let target_concurrency = MAX_TARGET_CONCURRENCY.min(targets.len().max(1))
target_concurrency(n) == Min(MAX_TARGET_CONCURRENCY, Max(n, 1))

TargetConcurrency == target_concurrency(Len(targets))

ActiveTargets == { ti \in 1..Len(targets) : tstate[ti] = "scanning" }

\* buffer_unordered(target_concurrency) takes the next target's scan_ports future
TargetStart(ti) ==
    /\ tstate[ti] = "queued"
    /\ \A tj \in 1..(ti - 1) : tstate[tj] # "queued"
    /\ Cardinality(ActiveTargets) < TargetConcurrency
    /\ tstate' = [tstate EXCEPT ![ti] = "scanning"]
    /\ UNCHANGED <<cfgVars, limiterVars, semVars, pc, next_port, results, out>>

\* faulty variant of TaskStart: scan_one takes its permit before acquire()
TaskStart_PermitFirst(ti) ==
    /\ tstate[ti] = "scanning"
    /\ next_port[ti] <= Len(ports)
    /\ SlotAvailable(ti)
    /\ permits > 0
    /\ permits' = permits - 1
    /\ held' = held \cup {<<ti, next_port[ti]>>}
    /\ pc' = [pc EXCEPT ![<<ti, next_port[ti]>>] = "rl_lock"]
    /\ next_port' = [next_port EXCEPT ![ti] = @ + 1]
    /\ UNCHANGED <<cfgVars, limiterVars, tstate, results, out>>

\* for_each_concurrent takes the next port of the stream and starts its future,
\* which runs to scan_one's first await
TaskStart(ti) ==
    /\ tstate[ti] = "scanning"
    /\ next_port[ti] <= Len(ports)
    /\ SlotAvailable(ti)
    /\ pc' = [pc EXCEPT ![<<ti, next_port[ti]>>] = "rl_lock"]
    /\ next_port' = [next_port EXCEPT ![ti] = @ + 1]
    /\ UNCHANGED <<cfgVars, limiterVars, semVars, tstate, results, out>>

\* faulty variant of AllPortsDone: the futures still running are not awaited
AllPortsDone_StreamOnly(ti) == next_port[ti] > Len(ports)

\* for_each_concurrent is finished: the stream is exhausted and no future is left
AllPortsDone(ti) ==
    /\ next_port[ti] > Len(ports)
    /\ InFlight(ti) = {}

\* scan_ports: clone the results, sort them by port, return them
ScanPortsReturn(ti) ==
    /\ tstate[ti] = "scanning"
    /\ AllPortsDone(ti)
    /\ out' = [out EXCEPT ![ti] = SortByPort(results[ti])]
    /\ tstate' = [tstate EXCEPT ![ti] = "returned"]
    /\ UNCHANGED <<cfgVars, limiterVars, semVars, pc, next_port, results>>

(***************************************************************************)
(* The engine: every target of main, every port task, the limiter and the  *)
(* semaphore they share.                                                   *)
(***************************************************************************)
\* no connection has reached identify_and_banner
DetectorIdle ==
    /\ det_pc = "idle"
    /\ wire = <<>>
    /\ rx = <<>>
    /\ det_out = <<>>
    /\ connect_res = <<>>

\* the target stream seen as counters, before the first poll
FanOutIdle ==
    /\ n_targets = Len(targets)
    /\ yielded = 0
    /\ completed = 0
    /\ tracked = 1
    /\ tracked_scans = 0
    /\ tracked_done = FALSE

\* the temporary file was created by the first open()
JournalCreated ==
    /\ attempt = 1
    /\ tmp_path = Some(0)
    /\ tmp_files = {<<0, "run">>}
    /\ stderr = <<>>

\* main before the streaming loop: nothing printed, nothing written
MainIdle ==
    /\ JournalCreated
    /\ finished = <<>>
    /\ json = FALSE
    /\ open_only = FALSE
    /\ main_pc = "start"
    /\ taken = {}
    /\ cur_list = <<>>
    /\ first_json_item = TRUE
    /\ stdout = <<>>
    /\ journal = <<>>
    /\ artifact = <<>>
    /\ emitted = <<>>

\* the state main builds before the first poll of in_flight
Start(shapes) ==
    /\ targets \in TargetLists
    /\ ports \in PortLists
    /\ <<Len(targets), Len(ports)>> \in shapes
    /\ concurrency \in 0..MaxConcurrency
    /\ max_connections \in 1..MaxCapacity
    /\ \E rate \in 0..MaxRate : rate_per_sec = RateLimiterNew(rate)
    /\ window_age = 0
    /\ count_in_window = 0
    /\ rl_guard = NoTask
    /\ sleep_left = [t \in TaskIds |-> 0]
    /\ permits = max_connections
    /\ held = {}
    /\ pc = [t \in TaskIds |-> "queued"]
    /\ tstate = [ti \in 1..Len(targets) |-> "queued"]
    /\ next_port = [ti \in 1..Len(targets) |-> 1]
    /\ results = [ti \in 1..Len(targets) |-> <<>>]
    /\ out = [ti \in 1..Len(targets) |-> <<>>]
    /\ slept = [t \in TaskIds |-> FALSE]
    /\ first_window = TRUE
    /\ recent = [k \in 0..(Second - 1) |-> 0]
    /\ DetectorIdle
    /\ passive = FALSE
    /\ FanOutIdle
    /\ MainIdle

\* (number of targets, number of ports) of the runs with at most n port tasks
Shapes(n) == { s \in (1..Len(TargetNames)) \X (1..Len(PortSeq)) : s[1] * s[2] <= n }

Init == Start(Shapes(MaxTasks))

Next ==
    \/ Tick /\ UNCHANGED <<histVars, otherVars>>
    \/ \E ti \in 1..Len(targets) : TargetStart(ti) /\ UNCHANGED <<histVars, otherVars>>
    \/ \E ti \in 1..Len(targets) : TaskStart(ti) /\ UNCHANGED <<histVars, otherVars>>
    \/ \E t \in TaskIds : RlLock(t) /\ UNCHANGED <<histVars, otherVars>>
    \/ \E t \in TaskIds : RlCheck(t) /\ UNCHANGED <<histVars, otherVars>>
    \/ \E t \in TaskIds : RlWake(t) /\ UNCHANGED <<histVars, otherVars>>
    \/ \E t \in TaskIds : SemAcquire(t) /\ UNCHANGED <<histVars, otherVars>>
    \/ \E t \in TaskIds : ConnectTimeout(t) /\ UNCHANGED <<histVars, otherVars>>
    \/ \E t \in TaskIds : ConnectError(t) /\ UNCHANGED <<histVars, otherVars>>
    \/ \E t \in TaskIds : ConnectOk(t) /\ UNCHANGED <<histVars, otherVars>>
    \/ \E t \in TaskIds : Detected(t) /\ UNCHANGED <<histVars, otherVars>>
    \/ \E ti \in 1..Len(targets) : ScanPortsReturn(ti) /\ UNCHANGED <<histVars, otherVars>>

Spec == Init /\ [][Next]_vars

\* most port tasks of a run of the engine under a fair scheduler
MaxLiveTasks == 2

\* a step of a target or of a port task: any step of Next but the clock's
EngineStep == Next /\ <<pc, tstate>>' # <<pc, tstate>>

\* the engine under tokio's scheduler: time passes, and while some future of
\* the run can take a step, a step is taken
LiveEngine ==
    /\ Start(Shapes(MaxLiveTasks))
    /\ [][Next]_vars
    /\ WF_vars(Tick /\ UNCHANGED <<histVars, otherVars>>)
    /\ WF_vars(EngineStep)

(***************************************************************************)
(* The RateLimiter and its callers, with history variables: what an        *)
(* observer of acquire() and of the clock records.  The actions are those  *)
(* of Next up to the return of acquire(); no later step of a port task     *)
(* reads or writes the limiter.                                            *)
(***************************************************************************)
Shift(h) == [k \in 0..(Second - 1) |-> IF k = 0 THEN 0 ELSE h[k - 1]]

\* observed on a pass of t through acquire()
AcquireHist(t) ==
    /\ first_window' = (first_window /\ ~(window_age' < window_age))
    /\ slept' = [slept EXCEPT ![t] = @ \/ pc'[t] = "rl_sleep"]
    /\ recent' = [recent EXCEPT ![0] = IF pc'[t] = "sem_wait" THEN @ + 1 ELSE @]

\* observed on a tick
TickHist ==
    /\ recent' = Shift(recent)
    /\ UNCHANGED <<slept, first_window>>

NextRate ==
    \/ Tick /\ TickHist /\ UNCHANGED otherVars
    \/ \E ti \in 1..Len(targets) : TargetStart(ti) /\ UNCHANGED <<histVars, otherVars>>
    \/ \E ti \in 1..Len(targets) : TaskStart(ti) /\ UNCHANGED <<histVars, otherVars>>
    \/ \E t \in TaskIds : RlLock(t) /\ UNCHANGED <<histVars, otherVars>>
    \/ \E t \in TaskIds : RlCheck(t) /\ AcquireHist(t) /\ UNCHANGED otherVars
    \/ \E t \in TaskIds : RlWake(t) /\ UNCHANGED <<histVars, otherVars>>

InitRate == Start(Shapes(MaxCallers))

SpecRate == InitRate /\ [][NextRate]_vars

\* every port task a run of the model can have
TaskUniverse == (1..Len(TargetNames)) \X (1..Len(PortSeq))

\* a fair scheduler and a clock that advances: every step of acquire() that
\* stays possible is eventually taken
LiveRate ==
    /\ InitRate
    /\ [][NextRate]_vars
    /\ WF_vars(Tick /\ TickHist /\ UNCHANGED otherVars)
    /\ \A t \in TaskUniverse :
         /\ WF_vars(t \in TaskIds /\ RlLock(t) /\ UNCHANGED <<histVars, otherVars>>)
         /\ WF_vars(t \in TaskIds /\ RlCheck(t) /\ AcquireHist(t) /\ UNCHANGED otherVars)
         /\ WF_vars(t \in TaskIds /\ RlWake(t) /\ UNCHANGED <<histVars, otherVars>>)

(***************************************************************************)
(* ProtocolDetector (protocols.rs).  A byte is a number in 0..255, a       *)
(* buffer (Vec<u8>, &[u8]) a sequence of bytes, and a String the sequence  *)
(* of its code points.                                                     *)
(***************************************************************************)
\* the truncation mark of hex_preview
S_ellipsis == <<8230>>
\* U+FFFD REPLACEMENT CHARACTER
REPLACEMENT == <<65533>>

\* the bytes (for ASCII, also the code points) of the string literals and
\* names of the program
Text(s) ==
    CASE s = "SSH-" -> <<83, 83, 72, 45>>
      [] s = "220 " -> <<50, 50, 48, 32>>
      [] s = "HTTP/" -> <<72, 84, 84, 80, 47>>
      [] s = "login:" -> <<108, 111, 103, 105, 110, 58>>
      [] s = "username:" -> <<117, 115, 101, 114, 110, 97, 109, 101, 58>>
      [] s = "password:" -> <<112, 97, 115, 115, 119, 111, 114, 100, 58>>
      [] s = "hex:" -> <<104, 101, 120, 58>>
      [] s = "dns id=0x" -> <<100, 110, 115, 32, 105, 100, 61, 48, 120>>
      [] s = " qd=" -> <<32, 113, 100, 61>>
      [] s = " an=" -> <<32, 97, 110, 61>>
      [] s = " rcode=" -> <<32, 114, 99, 111, 100, 101, 61>>
      [] s = " complete" -> <<32, 99, 111, 109, 112, 108, 101, 116, 101>>
      [] s = "h1" -> <<104, 49>>
      [] s = "h2" -> <<104, 50>>
      [] s = "timeout" -> <<116, 105, 109, 101, 111, 117, 116>>
      [] s = "Connection refused" -> <<67, 111, 110, 110, 101, 99, 116, 105, 111, 110, 32, 114, 101, 102, 117, 115, 101, 100>>
      [] s = "Network is unreachable" -> <<78, 101, 116, 119, 111, 114, 107, 32, 105, 115, 32, 117, 110, 114, 101, 97, 99, 104, 97, 98, 108, 101>>
      [] s = "Http" -> <<72, 116, 116, 112>>
      [] s = "Https" -> <<72, 116, 116, 112, 115>>
      [] s = "Ssh" -> <<83, 115, 104>>
      [] s = "Smtp" -> <<83, 109, 116, 112>>
      [] s = "Tls" -> <<84, 108, 115>>
      [] s = "Telnet" -> <<84, 101, 108, 110, 101, 116>>
      [] s = "Dns" -> <<68, 110, 115>>
      [] s = "Mysql" -> <<77, 121, 115, 113, 108>>
      [] s = "Unknown" -> <<85, 110, 107, 110, 111, 119, 110>>
      [] s = "http" -> <<104, 116, 116, 112>>
      [] s = "https" -> <<104, 116, 116, 112, 115>>
      [] s = "ssh" -> <<115, 115, 104>>
      [] s = "smtp" -> <<115, 109, 116, 112>>
      [] s = "tls" -> <<116, 108, 115>>
      [] s = "telnet" -> <<116, 101, 108, 110, 101, 116>>
      [] s = "dns" -> <<100, 110, 115>>
      [] s = "mysql" -> <<109, 121, 115, 113, 108>>
      [] s = "unknown" -> <<117, 110, 107, 110, 111, 119, 110>>
      [] s = "{\"results\":[" -> <<123, 34, 114, 101, 115, 117, 108, 116, 115, 34, 58, 91>>
      [] s = "]}" -> <<93, 125>>
      [] s = "{\"target\":" -> <<123, 34, 116, 97, 114, 103, 101, 116, 34, 58>>
      [] s = ",\"port\":" -> <<44, 34, 112, 111, 114, 116, 34, 58>>
      [] s = ",\"open\":" -> <<44, 34, 111, 112, 101, 110, 34, 58>>
      [] s = ",\"protocol\":" -> <<44, 34, 112, 114, 111, 116, 111, 99, 111, 108, 34, 58>>
      [] s = ",\"banner\":" -> <<44, 34, 98, 97, 110, 110, 101, 114, 34, 58>>
      [] s = ",\"error\":" -> <<44, 34, 101, 114, 114, 111, 114, 34, 58>>
      [] s = "}" -> <<125>>
      [] s = "null" -> <<110, 117, 108, 108>>
      [] s = "true" -> <<116, 114, 117, 101>>
      [] s = "false" -> <<102, 97, 108, 115, 101>>
      [] s = "," -> <<44>>
      [] s = ":" -> <<58>>
      [] s = " open" -> <<32, 111, 112, 101, 110>>
      [] s = " closed" -> <<32, 99, 108, 111, 115, 101, 100>>
      [] s = " [" -> <<32, 91>>
      [] s = "]" -> <<93>>

\* <[u8]>::starts_with
StartsWith(buf, prefix) ==
    /\ Len(buf) >= Len(prefix)
    /\ SubSeq(buf, 1, Len(prefix)) = prefix

\* <[u8]>::get, <[u8]>::first: index i counts from 0
Get(buf, i) == IF i < Len(buf) THEN Some(buf[i + 1]) ELSE None

\* u8::to_ascii_lowercase
ToAsciiLowercase(b) == IF b >= 65 /\ b <= 90 THEN b + 32 ELSE b

Lowered(w) == [i \in 1..Len(w) |-> ToAsciiLowercase(w[i])]

\* <[u8]>::windows(n): every run of n consecutive bytes
Windows(haystack, n) ==
    { SubSeq(haystack, i, i + n - 1) : i \in 1..(Len(haystack) - n + 1) }

\* tw_contains_ci: case-insensitive ASCII search for needle in haystack
tw_contains_ci(haystack, needle) ==
    IF needle = <<>> THEN TRUE
    ELSE LET n == Lowered(needle)
         IN \E w \in Windows(haystack, Len(n)) : Lowered(w) = n

\* String::from_utf8_lossy: an ASCII byte is its own code point, a two-byte
\* sequence (lead 0xC2..0xDF, continuation 0x80..0xBF) is decoded, and every
\* other byte of 0x80..0xFF that starts no valid sequence becomes U+FFFD.
\* (Three- and four-byte leads 0xE0..0xF4 are not in the model's buffers.)
RECURSIVE Utf8Lossy(_)
Utf8Lossy(buf) ==
    IF buf = <<>> THEN <<>>
    ELSE IF buf[1] < 128 THEN <<buf[1]>> \o Utf8Lossy(Tail(buf))
    ELSE IF /\ buf[1] >= 194 /\ buf[1] <= 223
            /\ Len(buf) >= 2 /\ buf[2] >= 128 /\ buf[2] <= 191
         THEN <<(buf[1] - 192) * 64 + (buf[2] - 128)>> \o Utf8Lossy(SubSeq(buf, 3, Len(buf)))
    ELSE REPLACEMENT \o Utf8Lossy(Tail(buf))

\* str::trim_end_matches('\0')
RECURSIVE TrimEndNul(_)
TrimEndNul(s) ==
    IF s # <<>> /\ s[Len(s)] = 0 THEN TrimEndNul(SubSeq(s, 1, Len(s) - 1)) ELSE s

\* faulty variant of to_safe_string: trailing line ends are trimmed as well
RECURSIVE TrimEndNulCrLf(_)
TrimEndNulCrLf(s) ==
    IF s # <<>> /\ s[Len(s)] \in {0, 10, 13}
    THEN TrimEndNulCrLf(SubSeq(s, 1, Len(s) - 1)) ELSE s

to_safe_string_Trimmed(buf) == TrimEndNulCrLf(Utf8Lossy(buf))

\* to_safe_string: convert to UTF-8 lossily and trim NULs
to_safe_string(buf) == TrimEndNul(Utf8Lossy(buf))

\* format!("{:x}") of one digit
HexDigit(d) == IF d < 10 THEN 48 + d ELSE 87 + d

\* format!("{:02x}", b)
Hex02(b) == <<HexDigit(b \div 16), HexDigit(b % 16)>>

\* const MAX of hex_preview
MAX == 64

RECURSIVE HexOf(_)
HexOf(buf) == IF buf = <<>> THEN <<>> ELSE Hex02(buf[1]) \o HexOf(Tail(buf))

\* hex_preview
hex_preview(buf) ==
    LET take == Min(Len(buf), MAX)
    IN Text("hex:") \o HexOf(SubSeq(buf, 1, take))
             \o (IF Len(buf) > MAX THEN S_ellipsis ELSE <<>>)

\* (b & 0x80) != 0
HighBit(b) == (b \div 128) % 2 = 1

\* detect_from_bytes: the telnet test, shared with telnet_probe
IsTelnet(buf) ==
    \/ Get(buf, 0) = Some(255)
    \/ tw_contains_ci(buf, Text("login:"))
    \/ tw_contains_ci(buf, Text("username:"))
    \/ tw_contains_ci(buf, Text("password:"))

\* the TLS record test, shared with tls_probe
IsTlsRecord(buf) == Get(buf, 0) = Some(22) /\ Get(buf, 1) = Some(3)

\* detect_from_bytes: match port_hint
PortHint(port_hint) ==
    IF port_hint \in {80, 8080, 8000, 8888} THEN <<"Http", None>>
    ELSE IF port_hint \in {443, 8443} THEN <<"Https", None>>
    ELSE IF port_hint = 22 THEN <<"Ssh", None>>
    ELSE IF port_hint = 23 THEN <<"Telnet", None>>
    ELSE IF port_hint \in {25, 587, 465} THEN <<"Smtp", None>>
    ELSE IF port_hint = 53 THEN <<"Dns", None>>
    ELSE <<"Unknown", None>>

\* faulty variant of detect_from_bytes: the telnet test comes first
detect_from_bytes_TelnetFirst(buf, port_hint) ==
    IF IsTelnet(buf) THEN <<"Telnet", Some(to_safe_string(buf))>>
    ELSE IF StartsWith(buf, Text("SSH-")) THEN <<"Ssh", Some(to_safe_string(buf))>>
    ELSE IF StartsWith(buf, Text("220 ")) THEN <<"Smtp", Some(to_safe_string(buf))>>
    ELSE IF StartsWith(buf, Text("HTTP/")) THEN <<"Http", Some(to_safe_string(buf))>>
    ELSE IF IsTlsRecord(buf) THEN <<"Tls", Some(hex_preview(buf))>>
    ELSE IF /\ Len(buf) >= 14
            /\ HighBit(IF Get(buf, 4) = None THEN 0 ELSE Get(buf, 4)[1])
            /\ port_hint = 53
         THEN <<"Dns", Some(hex_preview(buf))>>
    ELSE PortHint(port_hint)

\* detect_from_bytes: (Protocol, Option<String>)
detect_from_bytes(buf, port_hint) ==
    IF StartsWith(buf, Text("SSH-")) THEN <<"Ssh", Some(to_safe_string(buf))>>
    ELSE IF StartsWith(buf, Text("220 ")) THEN <<"Smtp", Some(to_safe_string(buf))>>
    ELSE IF StartsWith(buf, Text("HTTP/")) THEN <<"Http", Some(to_safe_string(buf))>>
    ELSE IF IsTelnet(buf) THEN <<"Telnet", Some(to_safe_string(buf))>>
    ELSE IF IsTlsRecord(buf) THEN <<"Tls", Some(hex_preview(buf))>>
    ELSE IF /\ Len(buf) >= 14
            /\ LET header_start == 2
                   flags_hi == IF Get(buf, header_start + 2) = None THEN 0
                               ELSE Get(buf, header_start + 2)[1]
               IN HighBit(flags_hi)
            /\ port_hint = 53
         THEN <<"Dns", Some(hex_preview(buf))>>
    ELSE PortHint(port_hint)


\* format!("{}") of an unsigned number
RECURSIVE Decimal(_)
Decimal(n) == IF n < 10 THEN <<48 + n>> ELSE Decimal(n \div 10) \o <<48 + (n % 10)>>

\* format!("{:04x}") of a u16
Hex04(n) == Hex02(n \div 256) \o Hex02(n % 256)

\* u16::from_be_bytes
U16Be(hi, lo) == hi * 256 + lo

\* The probes below are the functions of that name from the point where
\* the probe's bytes are written: resp is what read_some then returned, the
\* empty buffer standing for its Err(()) (time-out, read error, end of
\* stream).  The result is <<"Ok", Protocol, Option<String>>> or <<"Err">>.

\* a probe's write_all (or http_probe's flush) timed out
ProbeErr == <<"Err">>

\* dns_probe
dns_probe(resp) ==
    IF resp = <<>> THEN ProbeErr
    ELSE LET header_start == IF Len(resp) >= 2 THEN 2 ELSE 0
             total == IF Len(resp) >= 2 THEN U16Be(resp[1], resp[2]) ELSE 0
             total_len_ok == Len(resp) >= 2 + 12 /\ Len(resp) >= 2 + total
         IN IF Len(resp) < header_start + 12 THEN ProbeErr
            ELSE LET flags_hi == resp[header_start + 2 + 1]
                     flags_lo == resp[header_start + 3 + 1]
                     qr == HighBit(flags_hi)
                     rcode == flags_lo % 16
                     qdcount == U16Be(resp[header_start + 4 + 1], resp[header_start + 5 + 1])
                     ancount == U16Be(resp[header_start + 6 + 1], resp[header_start + 7 + 1])
                     resp_id == U16Be(resp[header_start + 0 + 1], resp[header_start + 1 + 1])
                 IN IF ~qr THEN ProbeErr
                    ELSE <<"Ok", "Dns",
                           Some(Text("dns id=0x") \o Hex04(resp_id) \o Text(" qd=") \o Decimal(qdcount)
                                \o Text(" an=") \o Decimal(ancount) \o Text(" rcode=") \o Decimal(rcode)
                                \o (IF total_len_ok THEN Text(" complete") ELSE <<>>))>>

\* http_probe
http_probe(resp) ==
    IF resp # <<>> /\ StartsWith(resp, Text("HTTP/"))
    THEN <<"Ok", "Http", Some(to_safe_string(resp))>>
    ELSE ProbeErr

\* telnet_probe
telnet_probe(resp) ==
    IF resp # <<>> /\ IsTelnet(resp)
    THEN <<"Ok", "Telnet", Some(to_safe_string(resp))>>
    ELSE ProbeErr

\* faulty variant of tls_probe: the record is recognised, no preview is made
tls_probe_NoBanner(resp) ==
    IF resp # <<>> /\ IsTlsRecord(resp)
    THEN <<"Ok", "Tls", None>>
    ELSE ProbeErr

\* tls_probe
tls_probe(resp) ==
    IF resp # <<>> /\ IsTlsRecord(resp)
    THEN <<"Ok", "Tls", Some(hex_preview(resp))>>
    ELSE ProbeErr

(***************************************************************************)
(* The bytes a peer can send.                                              *)
(***************************************************************************)
\* most fragments a generated buffer is made of
MaxFragments == 2

\* b"SSH-2.0-OpenSSH_8.2p1\r\n"
SshExample == <<83, 83, 72, 45, 50, 46, 48, 45, 79, 112, 101, 110, 83, 83, 72, 95, 56, 46, 50, 112, 49, 13, 10>>
\* b"220 mail.example.com ESMTP\r\n"
SmtpExample == <<50, 50, 48, 32, 109, 97, 105, 108, 46, 101, 120, 97, 109, 112, 108, 101, 46, 99, 111, 109, 32, 69, 83, 77, 84, 80, 13, 10>>
\* b"HTTP/1.1 200 OK\r\n"
HttpExample == <<72, 84, 84, 80, 47, 49, 46, 49, 32, 50, 48, 48, 32, 79, 75, 13, 10>>

Fragments ==
    { Text("SSH-"), Text("220 "), Text("HTTP/"),
      <<76, 111, 103, 105, 110, 58>>,          \* b"Login:"
      <<85, 83, 69, 82, 78, 65, 77, 69, 58>>,       \* b"USERNAME:"
      Text("password:"),
      <<255>>,          \* telnet IAC
      <<22>>, <<3>>,    \* the two bytes that open a TLS record
      <<0, 12, 79, 83, 129, 128, 0, 1, 0, 1, 0, 0, 0, 0>>,          \* DNS over TCP: a response header (QR set)
      <<0, 12, 79, 83, 1, 0, 0, 1, 0, 0, 0, 0, 0, 0>>,           \* DNS over TCP: a query header (QR clear)
      <<120>>,          \* b"x"
      <<0>>,            \* NUL
      <<13, 10>>,       \* CR LF
      <<195, 169>> }    \* U+00E9 in UTF-8

RECURSIVE Concats(_)
Concats(n) ==
    IF n = 0 THEN { <<>> }
    ELSE LET shorter == Concats(n - 1)
         IN shorter \cup { f \o b : f \in Fragments, b \in shorter }

\* the non-empty buffers a read can return
Buffers == (Concats(MaxFragments) \ { <<>> }) \cup {SshExample, SmtpExample, HttpExample}

\* what read_some gives its caller: a buffer, or the empty one for Err(())
Reads == Buffers \cup { <<>> }

\* the ports a connection of the detector's runs is made to
DetectPorts == {22, 23, 25, 53, 80, 443, 465, 587, 8000, 8080, 8443, 8888, 9999}

\* e.to_string() of the io::Error of TcpStream::connect
IoErrors == {"Connection refused", "Network is unreachable"}

(***************************************************************************)
(* identify_and_banner, step by step, on the connection of one port task.  *)
(* wire records every probe written to the stream with what came of it.    *)
(***************************************************************************)
\* the engine's and main's variables identify_and_banner does not touch
detFrame == <<cfgVars, limiterVars, semVars, pc, targetVars, histVars, fanVars, mainVars,
              passive, connect_res>>

\* if port == 53 { dns_probe } comes first, http_probe otherwise
FirstProbe(port) == IF port = 53 THEN "dns" ELSE "http"

\* faulty variant of NextProbe: the TLS probe is sent before the Telnet probe
NextProbe_TlsFirst(name) ==
    CASE name = "dns" -> "http"
      [] name = "http" -> "tls"
      [] name = "tls" -> "telnet"
      [] name = "telnet" -> "fallback"

\* the probe identify_and_banner goes on to when the probe name failed
NextProbe(name) ==
    CASE name = "dns" -> "http"
      [] name = "http" -> "telnet"
      [] name = "telnet" -> "tls"
      [] name = "tls" -> "fallback"

\* faulty variant of UnknownFallback: the port-hint table decides
UnknownFallback_PortHint(port) == <<Some(PortHint(port)[1]), None>>

\* (Some(Protocol::Unknown), None): no read and no probe succeeded
UnknownFallback(port) == <<Some("Unknown"), None>>

\* Option::unwrap_or
UnwrapOr(opt, default) == IF opt = None THEN default ELSE opt[1]

\* faulty variant of PassiveRead: only a banner the matching rule derived is
\* returned, the received bytes are not used in its place
PassiveRead_RuleBannerOnly(t) ==
    /\ pc[t] = "detecting"
    /\ det_pc = "passive_read"
    /\ \E buf \in Reads :
         /\ rx' = buf
         /\ IF buf # <<>>
            THEN /\ det_out' = <<Some(detect_from_bytes(buf, Port(t))[1]),
                                 detect_from_bytes(buf, Port(t))[2]>>
                 /\ det_pc' = "returned"
            ELSE /\ det_out' = det_out
                 /\ det_pc' = FirstProbe(Port(t))
    /\ UNCHANGED <<detFrame, wire>>

\* identify_and_banner: the passive read_some and the match on it
PassiveRead(t) ==
    /\ pc[t] = "detecting"
    /\ det_pc = "passive_read"
    /\ \E buf \in Reads :
         /\ rx' = buf
         /\ IF buf # <<>>
            THEN LET d == detect_from_bytes(buf, Port(t))
                     banner_s == to_safe_string(buf)
                 IN /\ det_out' = <<Some(d[1]), Some(UnwrapOr(d[2], banner_s))>>
                    /\ det_pc' = "returned"
            ELSE /\ det_out' = det_out
                 /\ det_pc' = FirstProbe(Port(t))
    /\ UNCHANGED <<detFrame, wire>>

\* identify_and_banner: one "if let Ok(..) = probe(..).await { return .. }",
\* answers being what the probe can return
ProbeStep(t, name, answers) ==
    /\ pc[t] = "detecting"
    /\ det_pc = name
    /\ \E r \in {ProbeErr} \cup answers :
         /\ wire' = Append(wire, <<name, r[1]>>)
         /\ IF r[1] = "Ok"
            THEN /\ det_out' = <<Some(r[2]), r[3]>>
                 /\ det_pc' = "returned"
            ELSE IF NextProbe(name) = "fallback"
            THEN /\ det_out' = UnknownFallback(Port(t))
                 /\ det_pc' = "returned"
            ELSE /\ det_out' = det_out
                 /\ det_pc' = NextProbe(name)
    /\ UNCHANGED <<detFrame, rx>>

DnsProbe(t) == ProbeStep(t, "dns", { dns_probe(resp) : resp \in Reads })
HttpProbe(t) == ProbeStep(t, "http", { http_probe(resp) : resp \in Reads })
TelnetProbe(t) == ProbeStep(t, "telnet", { telnet_probe(resp) : resp \in Reads })
TlsProbe(t) == ProbeStep(t, "tls", { tls_probe(resp) : resp \in Reads })

\* what the observer of scan_one's connect records
detHist == <<passive, det_pc, wire, rx, det_out>>

\* scan_one's three arms on one connection, identify_and_banner in full
ScanTimeout(t) ==
    /\ ConnectTimeout(t)
    /\ connect_res' = <<"timeout">>
    /\ UNCHANGED <<histVars, fanVars, mainVars, detHist>>

ScanError(t) ==
    \E e \in IoErrors :
        /\ ConnectErrorAs(t, e)
        /\ connect_res' = <<"error", e>>
        /\ UNCHANGED <<histVars, fanVars, mainVars, detHist>>

ScanConnected(t) ==
    /\ ConnectOk(t)
    /\ det_pc' = "passive_read"
    /\ connect_res' = <<"ok">>
    /\ UNCHANGED <<histVars, fanVars, mainVars, passive, wire, rx, det_out>>

ScanDetected(t) ==
    /\ det_pc = "returned"
    /\ DetectedAs(t, det_out)
    /\ det_pc' = "done"
    /\ UNCHANGED <<histVars, fanVars, mainVars, passive, wire, rx, det_out, connect_res>>

\* one port task of one target, holding its permit, about to connect
InitDetect ==
    /\ targets = <<"h1">>
    /\ \E p \in DetectPorts : ports = <<p>>
    /\ concurrency = 1
    /\ max_connections = 1
    /\ rate_per_sec = RateLimiterNew(1)
    /\ window_age = 0
    /\ count_in_window = 1
    /\ rl_guard = NoTask
    /\ sleep_left = [t \in TaskIds |-> 0]
    /\ permits = 0
    /\ held = TaskIds
    /\ pc = [t \in TaskIds |-> "connecting"]
    /\ tstate = [ti \in 1..Len(targets) |-> "scanning"]
    /\ next_port = [ti \in 1..Len(targets) |-> 2]
    /\ results = [ti \in 1..Len(targets) |-> <<>>]
    /\ out = [ti \in 1..Len(targets) |-> <<>>]
    /\ slept = [t \in TaskIds |-> FALSE]
    /\ first_window = TRUE
    /\ recent = [k \in 0..(Second - 1) |-> 0]
    /\ DetectorIdle
    /\ passive \in BOOLEAN
    /\ FanOutIdle
    /\ MainIdle

NextDetect ==
    \/ \E t \in TaskIds : ScanTimeout(t)
    \/ \E t \in TaskIds : ScanError(t)
    \/ \E t \in TaskIds : ScanConnected(t)
    \/ \E t \in TaskIds : PassiveRead(t)
    \/ \E t \in TaskIds : DnsProbe(t)
    \/ \E t \in TaskIds : HttpProbe(t)
    \/ \E t \in TaskIds : TelnetProbe(t)
    \/ \E t \in TaskIds : TlsProbe(t)
    \/ \E t \in TaskIds : ScanDetected(t)
    \/ \E ti \in 1..Len(targets) : ScanPortsReturn(ti) /\ UNCHANGED <<histVars, otherVars>>

SpecDetect == InitDetect /\ [][NextDetect]_vars

(***************************************************************************)
(* The target fan-out of main for target lists of any length.  The list is *)
(* represented by its length, and the targets by three counters: the       *)
(* stream yields them in order, so the targets started are 1..yielded.     *)
(* An observer follows one target, tracked.                                *)
(***************************************************************************)
\* the short target lists of the model have 1..MaxFew targets
MaxFew == 3
\* the long ones have up to MAX_TARGET_CONCURRENCY + MaxOver targets
MaxOver == 1

TargetCounts ==
    (1..MaxFew) \cup ((MAX_TARGET_CONCURRENCY - 1)..(MAX_TARGET_CONCURRENCY + MaxOver))

\* scan_ports futures in the buffer of buffer_unordered
ActiveCount == yielded - completed

TrackedActive == yielded >= tracked /\ ~tracked_done

\* the engine's variables stay as main built them: the fan-out specification
\* keeps no per-target or per-port state
fanFrame == <<cfgVars, limiterVars, semVars, pc, targetVars, histVars, detVars, mainVars,
              n_targets, tracked>>

\* BufferUnordered::poll_next: while the buffer holds fewer than
\* target_concurrency futures, take the next one from target_stream
TargetYield ==
    /\ yielded < n_targets
    /\ ActiveCount < target_concurrency(n_targets)
    /\ yielded' = yielded + 1
    /\ tracked_scans' = IF yielded + 1 = tracked THEN tracked_scans + 1 ELSE tracked_scans
    /\ UNCHANGED <<fanFrame, completed, tracked_done>>

\* BufferUnordered::poll_next: the buffer is full or the stream is exhausted,
\* the futures in the buffer are polled and one scan_ports has returned
TargetComplete ==
    /\ ActiveCount > 0
    /\ yielded = n_targets \/ ActiveCount = target_concurrency(n_targets)
    /\ \/ TrackedActive /\ tracked_done' = TRUE
       \/ ActiveCount > (IF TrackedActive THEN 1 ELSE 0) /\ tracked_done' = tracked_done
    /\ completed' = completed + 1
    /\ UNCHANGED <<fanFrame, yielded, tracked_scans>>

InitTargets ==
    /\ targets = <<"h1">>
    /\ ports = <<22>>
    /\ concurrency = 1
    /\ max_connections = 1
    /\ rate_per_sec = RateLimiterNew(1)
    /\ window_age = 0
    /\ count_in_window = 0
    /\ rl_guard = NoTask
    /\ sleep_left = [t \in TaskIds |-> 0]
    /\ permits = max_connections
    /\ held = {}
    /\ pc = [t \in TaskIds |-> "queued"]
    /\ tstate = [ti \in 1..Len(targets) |-> "queued"]
    /\ next_port = [ti \in 1..Len(targets) |-> 1]
    /\ results = [ti \in 1..Len(targets) |-> <<>>]
    /\ out = [ti \in 1..Len(targets) |-> <<>>]
    /\ slept = [t \in TaskIds |-> FALSE]
    /\ first_window = TRUE
    /\ recent = [k \in 0..(Second - 1) |-> 0]
    /\ DetectorIdle
    /\ passive = FALSE
    /\ MainIdle
    /\ n_targets \in TargetCounts
    /\ tracked \in {1, n_targets, Min(n_targets, MAX_TARGET_CONCURRENCY)}
    /\ yielded = 0
    /\ completed = 0
    /\ tracked_scans = 0
    /\ tracked_done = FALSE

NextTargets == TargetYield \/ TargetComplete

\* every scan_ports call returns (each of its steps ends or times out), and
\* main keeps polling in_flight until it is exhausted
LiveTargets ==
    /\ InitTargets
    /\ [][NextTargets]_vars
    /\ WF_vars(TargetYield)
    /\ WF_vars(TargetComplete)

(***************************************************************************)
(* The streaming loop of main and the save-file artifact (main.rs).  Text  *)
(* (standard output, the temporary NDJSON file, the save file) is a        *)
(* sequence of code points.                                                *)
(***************************************************************************)
\* most ports per target in the runs of the loop
MaxListLen == 2

\* banners with the characters serde_json escapes: quote, backslash, ESC, CR, LF
BannerSamples == { <<83, 34, 92, 27, 13, 10>> }

\* the results scan_one can build for a port
ResultSamples(target, port) ==
    { ScanResult(target, port, FALSE, None, None, Some("timeout")),
      ScanResult(target, port, TRUE, Some("Unknown"), None, None) }
    \cup { ScanResult(target, port, TRUE, Some("Ssh"), Some(b), None) : b \in BannerSamples }

\* the lists scan_ports can return for a target: one result per port, by port
ReturnedLists(target) ==
    { l \in [1..Len(ports) -> UNION { ResultSamples(target, ports[i]) : i \in 1..Len(ports) }] :
        \A i \in 1..Len(ports) : l[i].port = ports[i] }

\* faulty variant of EscapeChar: the character is written as it is
EscapeChar_Raw(c) == <<c>>

\* serde_json's escape of one character of a string
EscapeChar(c) ==
    IF c = 34 THEN <<92, 34>>
    ELSE IF c = 92 THEN <<92, 92>>
    ELSE IF c = 8 THEN <<92, 98>>
    ELSE IF c = 12 THEN <<92, 102>>
    ELSE IF c = 10 THEN <<92, 110>>
    ELSE IF c = 13 THEN <<92, 114>>
    ELSE IF c = 9 THEN <<92, 116>>
    ELSE IF c < 32 THEN <<92, 117, 48, 48>> \o Hex02(c)
    ELSE <<c>>

RECURSIVE Escaped(_)
Escaped(s) == IF s = <<>> THEN <<>> ELSE EscapeChar(s[1]) \o Escaped(Tail(s))

\* serde_json of a String
JsonString(s) == <<34>> \o Escaped(s) \o <<34>>

\* serde_json of an Option: null, or the value, whose text is some
JsonOption(opt, some) == IF opt = None THEN Text("null") ELSE some

\* serde_json of a unit variant of Protocol: the variant's name
JsonProtocol(p) == JsonString(Text(p))

JsonName(s) == JsonString(Text(s))

\* serde_json::to_string(&r) of a ScanResult
ToJson(r) ==
    Text("{\"target\":") \o JsonName(r.target)
    \o Text(",\"port\":") \o Decimal(r.port)
    \o Text(",\"open\":") \o (IF r.open THEN Text("true") ELSE Text("false"))
    \o Text(",\"protocol\":") \o JsonOption(r.protocol, JsonProtocol(UnwrapOr(r.protocol, "Unknown")))
    \o Text(",\"banner\":") \o JsonOption(r.banner, JsonString(UnwrapOr(r.banner, <<>>)))
    \o Text(",\"error\":") \o JsonOption(r.error, JsonName(UnwrapOr(r.error, "timeout")))
    \o Text("}")

\* impl Display for Protocol
ProtocolTag(p) ==
    CASE p = "Http" -> "http" [] p = "Https" -> "https" [] p = "Ssh" -> "ssh"
      [] p = "Smtp" -> "smtp" [] p = "Tls" -> "tls" [] p = "Telnet" -> "telnet"
      [] p = "Dns" -> "dns" [] p = "Mysql" -> "mysql" [] p = "Unknown" -> "unknown"

\* the line of the human-readable mode, without --raw-banner
HumanLine(r) ==
    Text(r.target) \o Text(":") \o Decimal(r.port)
    \o (IF r.open THEN Text(" open") ELSE Text(" closed"))
    \o (IF r.protocol = None THEN <<>>
        ELSE Text(" [") \o Text(ProtocolTag(r.protocol[1])) \o Text("]"))

\* faulty variant of RetainOpen: nothing is removed
RetainOpen_KeepAll(l) == l

\* list.retain(|r| r.open)
RetainOpen(l) == SelectSeq(l, LAMBDA r : r.open)

\* BufRead::lines: the text from position start on, cut at every LF, a CR
\* before the LF dropped
RECURSIVE LinesFrom(_, _)
LinesFrom(text, start) ==
    IF start > Len(text) THEN <<>>
    ELSE LET nl == { i \in start..Len(text) : text[i] = 10 }
         IN IF nl = {} THEN <<SubSeq(text, start, Len(text))>>
            ELSE LET i == CHOOSE k \in nl : \A j \in nl : k <= j
                     stop == IF i > start /\ text[i - 1] = 13 THEN i - 2 ELSE i - 1
                 IN <<SubSeq(text, start, stop)>> \o LinesFrom(text, i + 1)

Lines(text) == LinesFrom(text, 1)

\* faulty variant of NeedsComma: a comma before every element
NeedsComma_Always(first) == TRUE

\* if !first { write a comma }
NeedsComma(first) == ~first

\* the loop that writes the artifact: the lines that are not empty, with a
\* comma before each but the first
RECURSIVE JoinLines(_, _)
JoinLines(lines, first) ==
    IF lines = <<>> THEN <<>>
    ELSE IF Head(lines) = <<>> THEN JoinLines(Tail(lines), first)
    ELSE (IF NeedsComma(first) THEN Text(",") ELSE <<>>) \o Head(lines)
         \o JoinLines(Tail(lines), FALSE)

mainFrame == <<cfgVars, limiterVars, semVars, pc, targetVars, histVars, detVars, fanVars,
               json, open_only>>

\* if json { print!("{\"results\":[") }
OpenArray ==
    /\ main_pc = "start"
    /\ stdout' = IF json THEN stdout \o Text("{\"results\":[") ELSE stdout
    /\ main_pc' = "poll"
    /\ UNCHANGED <<mainFrame, taken, cur_list, first_json_item, journal, artifact, emitted,
                   tmpVars, finished>>

\* faulty variant of NoneReady: the futures are polled on while a list waits
NoneReady_Always == TRUE

\* FuturesUnordered::poll_next returns at the first future that is Ready: no
\* other future is polled while a returned list waits to be taken
NoneReady == \A ti \in 1..Len(targets) : tstate[ti] = "returned" => ti \in taken

\* in_flight.next().await polls buffer_unordered, which takes the next target's
\* scan_ports future from target_stream
PollStart(ti) ==
    /\ main_pc = "poll"
    /\ NoneReady
    /\ TargetStart(ti)
    /\ UNCHANGED <<histVars, otherVars>>

Reverse(l) == [i \in 1..Len(l) |-> l[Len(l) + 1 - i]]

\* in_flight.next().await polls the scan_ports future of a target, whose port
\* tasks have pushed their results (followed here in one order, the last
\* port first; Spec has every order); it sorts them and returns.
\* buffer_unordered polls its futures once it holds target_concurrency of
\* them or target_stream is exhausted.
PollReturn(ti) ==
    /\ main_pc = "poll"
    /\ NoneReady
    /\ tstate[ti] = "scanning"
    /\ \/ \A tj \in 1..Len(targets) : tstate[tj] # "queued"
       \/ Cardinality(ActiveTargets) = TargetConcurrency
    /\ \E l \in ReturnedLists(targets[ti]) :
         /\ results' = [results EXCEPT ![ti] = Reverse(l)]
         /\ out' = [out EXCEPT ![ti] = SortByPort(Reverse(l))]
    /\ tstate' = [tstate EXCEPT ![ti] = "returned"]
    /\ next_port' = [next_port EXCEPT ![ti] = Len(ports) + 1]
    /\ pc' = [t \in TaskIds |-> IF t[1] = ti THEN "done" ELSE pc[t]]
    /\ finished' = Append(finished, ti)
    /\ UNCHANGED <<cfgVars, limiterVars, semVars, histVars, detVars, fanVars, json,
                   open_only, main_pc, taken, cur_list, first_json_item, stdout, journal,
                   artifact, emitted, tmpVars>>

\* in_flight.next().await gives Some(Ok(list)): the list of a target whose
\* scan_ports has returned, filtered with --open-only, sorted for the
\* human-readable mode (one target, so by port)
NextList(ti) ==
    /\ main_pc = "poll"
    /\ ti \notin taken
    /\ tstate[ti] = "returned"
    /\ taken' = taken \cup {ti}
    /\ LET kept == IF open_only THEN RetainOpen(out[ti]) ELSE out[ti]
       IN cur_list' = IF json THEN kept ELSE SortByPort(kept)
    /\ main_pc' = "emit"
    /\ UNCHANGED <<mainFrame, first_json_item, stdout, journal, artifact, emitted, tmpVars,
                   finished>>

\* one pass of "for r in list": the line goes to the journal, and the
\* element or the human-readable line to standard output
EmitResult ==
    /\ main_pc = "emit"
    /\ cur_list # <<>>
    /\ LET r == Head(cur_list)
           line == ToJson(r)
       IN /\ journal' = journal \o line \o <<10>>
          /\ emitted' = Append(emitted, r)
          /\ IF json
             THEN /\ stdout' = stdout \o (IF NeedsComma(first_json_item) THEN Text(",") ELSE <<>>)
                                      \o line
                  /\ first_json_item' = FALSE
             ELSE /\ stdout' = stdout \o HumanLine(r) \o <<10>>
                  /\ first_json_item' = first_json_item
    /\ cur_list' = Tail(cur_list)
    /\ UNCHANGED <<mainFrame, main_pc, taken, artifact, tmpVars, finished>>

\* the list is exhausted: back to in_flight.next()
ListDone ==
    /\ main_pc = "emit"
    /\ cur_list = <<>>
    /\ main_pc' = "poll"
    /\ UNCHANGED <<mainFrame, taken, cur_list, first_json_item, stdout, journal, artifact,
                   emitted, tmpVars, finished>>

\* in_flight.next().await gives None; if json { println!("]}") }
CloseArray ==
    /\ main_pc = "poll"
    /\ taken = 1..Len(targets)
    /\ stdout' = IF json THEN stdout \o Text("]}") \o <<10>> ELSE stdout
    /\ main_pc' = "reassemble"
    /\ UNCHANGED <<mainFrame, taken, cur_list, first_json_item, journal, artifact, emitted,
                   tmpVars, finished>>

\* the journal is rewound and its lines are written to save_file
Reassemble ==
    /\ main_pc = "reassemble"
    /\ artifact' = Text("{\"results\":[") \o JoinLines(Lines(journal), TRUE) \o Text("]}")
    /\ main_pc' = "written"
    /\ UNCHANGED <<mainFrame, taken, cur_list, first_json_item, stdout, journal, emitted,
                   tmpVars, finished>>

\* the temporary file is open and no future has been polled; main is about to
\* enter the streaming loop
InitMain ==
    /\ targets \in TargetLists
    /\ \E n \in 1..MaxListLen : ports = SubSeq(PortSeq, 1, n)
    /\ concurrency = Len(ports)
    /\ max_connections = 1
    /\ rate_per_sec = RateLimiterNew(1)
    /\ window_age = 0
    /\ count_in_window = 0
    /\ rl_guard = NoTask
    /\ sleep_left = [t \in TaskIds |-> 0]
    /\ permits = max_connections
    /\ held = {}
    /\ pc = [t \in TaskIds |-> "queued"]
    /\ tstate = [ti \in 1..Len(targets) |-> "queued"]
    /\ next_port = [ti \in 1..Len(targets) |-> 1]
    /\ results = [ti \in 1..Len(targets) |-> <<>>]
    /\ out = [ti \in 1..Len(targets) |-> <<>>]
    /\ slept = [t \in TaskIds |-> FALSE]
    /\ first_window = TRUE
    /\ recent = [k \in 0..(Second - 1) |-> 0]
    /\ DetectorIdle
    /\ passive = FALSE
    /\ FanOutIdle
    /\ json \in BOOLEAN
    /\ open_only \in BOOLEAN
    /\ main_pc = "start"
    /\ taken = {}
    /\ cur_list = <<>>
    /\ first_json_item = TRUE
    /\ stdout = <<>>
    /\ journal = <<>>
    /\ artifact = <<>>
    /\ emitted = <<>>
    /\ JournalCreated
    /\ finished = <<>>

NextMain ==
    \/ OpenArray
    \/ \E ti \in 1..Len(targets) : PollStart(ti)
    \/ \E ti \in 1..Len(targets) : PollReturn(ti)
    \/ \E ti \in 1..Len(targets) : NextList(ti)
    \/ EmitResult
    \/ ListDone
    \/ CloseArray
    \/ Reassemble

SpecMain == InitMain /\ [][NextMain]_vars

(***************************************************************************)
(* The whole of main's run on its temporary file: the file is created      *)
(* before the loop and removed after the artifact is written.  A name of   *)
(* the temporary directory is the attempt number it was built from, and    *)
(* tmp_files holds the names tried with who made the file.                 *)
(***************************************************************************)
\* for attempt in 0..3u8
TempAttempts == 3

\* what open() meets: the name is free, the name exists, any other io::Error
OpenResults == {"ok", "exists", "denied"}

\* faulty variant of OpenExclusive: create(true), an existing file is opened
OpenExclusive_Create(res) == res \in {"ok", "exists"}

\* OpenOptions::new().read(true).write(true).create_new(true).open(&path) is
\* Ok only when it made the file
OpenExclusive(res) == res = "ok"

\* one pass of the loop: a name is built and opened; Ok breaks the loop
CreateTemp ==
    /\ main_pc = "create"
    /\ attempt < TempAttempts
    /\ \E res \in OpenResults :
         /\ tmp_files' = tmp_files \cup (CASE res = "ok" -> {<<attempt, "run">>}
                                           [] res = "exists" -> {<<attempt, "other">>}
                                           [] res = "denied" -> {})
         /\ IF OpenExclusive(res)
            THEN tmp_path' = Some(attempt) /\ main_pc' = "start"
            ELSE tmp_path' = tmp_path /\ main_pc' = main_pc
    /\ attempt' = attempt + 1
    /\ UNCHANGED <<mainFrame, taken, cur_list, first_json_item, stdout, journal, artifact,
                   emitted, stderr, finished>>

\* tmp_path.ok_or_else(..)?: the loop ended without a file, main returns Err
CreateFailed ==
    /\ main_pc = "create"
    /\ attempt = TempAttempts
    /\ tmp_path = None
    /\ main_pc' = "fatal"
    /\ stderr' = Append(stderr, "failed to create secure temp file after several attempts")
    /\ UNCHANGED <<mainFrame, taken, cur_list, first_json_item, stdout, journal, artifact,
                   emitted, attempt, tmp_path, tmp_files, finished>>

\* faulty variant of RemoveTemp: the error of remove_file is returned
RemoveTemp_Fatal ==
    /\ main_pc = "written"
    /\ \E removed \in BOOLEAN :
         IF removed
         THEN /\ tmp_files' = { f \in tmp_files : f[1] # tmp_path[1] }
              /\ stderr' = stderr
              /\ main_pc' = "done"
         ELSE /\ tmp_files' = tmp_files
              /\ stderr' = Append(stderr, "failed to remove temp file")
              /\ main_pc' = "fatal"
    /\ UNCHANGED <<mainFrame, taken, cur_list, first_json_item, stdout, journal, artifact,
                   emitted, attempt, tmp_path, finished>>

\* std::fs::remove_file(&tmp_path), a warning if it fails, then Ok(())
RemoveTemp ==
    /\ main_pc = "written"
    /\ \E removed \in BOOLEAN :
         IF removed
         THEN /\ tmp_files' = { f \in tmp_files : f[1] # tmp_path[1] }
              /\ stderr' = stderr
         ELSE /\ tmp_files' = tmp_files
              /\ stderr' = Append(stderr, "warning: failed to remove temp file")
    /\ main_pc' = "done"
    /\ UNCHANGED <<mainFrame, taken, cur_list, first_json_item, stdout, journal, artifact,
                   emitted, attempt, tmp_path, finished>>

\* main has parsed its arguments and built in_flight; one port per target
InitJournal ==
    /\ targets \in TargetLists
    /\ ports = SubSeq(PortSeq, 1, 1)
    /\ concurrency = Len(ports)
    /\ max_connections = 1
    /\ rate_per_sec = RateLimiterNew(1)
    /\ window_age = 0
    /\ count_in_window = 0
    /\ rl_guard = NoTask
    /\ sleep_left = [t \in TaskIds |-> 0]
    /\ permits = max_connections
    /\ held = {}
    /\ pc = [t \in TaskIds |-> "queued"]
    /\ tstate = [ti \in 1..Len(targets) |-> "queued"]
    /\ next_port = [ti \in 1..Len(targets) |-> 1]
    /\ results = [ti \in 1..Len(targets) |-> <<>>]
    /\ out = [ti \in 1..Len(targets) |-> <<>>]
    /\ slept = [t \in TaskIds |-> FALSE]
    /\ first_window = TRUE
    /\ recent = [k \in 0..(Second - 1) |-> 0]
    /\ DetectorIdle
    /\ passive = FALSE
    /\ FanOutIdle
    /\ json \in BOOLEAN
    /\ open_only \in BOOLEAN
    /\ main_pc = "create"
    /\ taken = {}
    /\ cur_list = <<>>
    /\ first_json_item = TRUE
    /\ stdout = <<>>
    /\ journal = <<>>
    /\ artifact = <<>>
    /\ emitted = <<>>
    /\ attempt = 0
    /\ tmp_path = None
    /\ tmp_files = {}
    /\ stderr = <<>>
    /\ finished = <<>>

NextJournal ==
    \/ CreateTemp
    \/ CreateFailed
    \/ OpenArray
    \/ \E ti \in 1..Len(targets) : PollStart(ti)
    \/ \E ti \in 1..Len(targets) : PollReturn(ti)
    \/ \E ti \in 1..Len(targets) : NextList(ti)
    \/ EmitResult
    \/ ListDone
    \/ CloseArray
    \/ Reassemble
    \/ RemoveTemp

SpecJournal == InitJournal /\ [][NextJournal]_vars

(***************************************************************************)
(* Properties                                                              *)
(***************************************************************************)
RECURSIVE SumTo(_, _)
SumTo(h, k) == IF k < 0 THEN 0 ELSE h[k] + SumTo(h, k - 1)

\* acquire() returns during the last second
RollingCount == SumTo(recent, Second - 1)

\* acquire() returns since window_start, while the window is not over
WindowCount == SumTo(recent, Min(window_age, Second - 1))

\* the tasks whose acquire() has returned
Admitted == { t \in TaskIds : pc[t] \notin RlStates \cup {"queued"} }

\* the tasks in the connect+probe phase of scan_one
Connected == { t \in TaskIds : pc[t] \in {"connecting", "detecting"} }

\* C1: count_in_window never exceeds rate_per_sec, no more than rate_per_sec
\* calls of acquire() return within one window, and the window is reset (count
\* to 0, window_start to now) only by the task that holds the lock, when it
\* sees now - window_start >= 1s.
C1_CountWithinRate ==
    /\ [](count_in_window <= rate_per_sec)
    /\ [](window_age < Second => WindowCount <= rate_per_sec)
    /\ [][(count_in_window' < count_in_window \/ window_age' < window_age)
            => /\ rl_guard \in TaskIds
               /\ pc[rl_guard] = "rl_locked"
               /\ window_age >= Second
               /\ window_age' = 0
               /\ count_in_window' <= 1]_vars

\* a second window has been opened and its tokens are all taken
C1_SecondWindowFull ==
    /\ ~first_window
    /\ rate_per_sec > 1
    /\ count_in_window = rate_per_sec

\* C3: in the first window of a fresh limiter exactly the first rate_per_sec
\* calls return, none of them after sleeping; a caller sleeps only once
\* rate_per_sec calls have returned, and a caller that has slept in the first
\* window returns only when that window has elapsed (now - window_start >= 1s
\* as it resets the window, or the window was reset before).
C3_FirstWindow ==
    /\ [](first_window =>
            /\ Cardinality(Admitted) <= rate_per_sec
            /\ \A t \in Admitted : ~slept[t]
            /\ \A t \in TaskIds : slept[t] => Cardinality(Admitted) = rate_per_sec)
    /\ [][\A t \in TaskIds :
            (first_window /\ slept[t] /\ pc[t] \in RlStates /\ pc'[t] \notin RlStates)
               => window_age >= Second]_vars

\* the caller after the rate_per_sec first ones has slept and then returned
C3_SleeperReturned ==
    \E t \in TaskIds :
        /\ slept[t]
        /\ pc[t] = "sem_wait"
        /\ Cardinality(Admitted) = rate_per_sec + 1

\* C4 as stated: at most rate_per_sec calls of acquire() return in any rolling
\* interval of one second.
C4_RollingWindow == RollingCount <= rate_per_sec

\* C4 as amended: at most rate_per_sec calls return in the second that starts at
\* window_start, and at most twice that in a rolling second, which can straddle
\* one reset of the window.
C4_AlignedWindow ==
    /\ window_age < Second => WindowCount <= rate_per_sec
    /\ RollingCount <= 2 * rate_per_sec

\* a rolling second that straddles a reset holds the tokens of two windows
C4_Straddle ==
    /\ ~first_window
    /\ RollingCount = 2 * rate_per_sec

\* C5: every call of acquire() eventually returns.
C5_AcquireReturns ==
    \A t \in TaskUniverse :
        (t \in TaskIds /\ pc[t] \in RlStates) ~> (t \in TaskIds /\ pc[t] = "sem_wait")

\* more callers than tokens in a window, and all have returned
C5_AllReturned ==
    /\ Cardinality(TaskIds) > rate_per_sec
    /\ \A t \in TaskIds : pc[t] = "sem_wait"

\* C2: the tasks in the connect+probe phase never outnumber the capacity of
\* the global semaphore.
C2_ConnectedWithinCapacity == Cardinality(Connected) <= max_connections

\* the capacity is used up and a task of another target waits for a permit
C2_TaskWaitsForPermit ==
    /\ Cardinality(Connected) = max_connections
    /\ \E t \in Connected, u \in TaskIds : pc[u] = "sem_wait" /\ t[1] # u[1]

\* C6: a task owns a permit exactly from acquire_owned() to the return of
\* scan_one, through the connect and the detection, whatever the outcome; every
\* permit is either available or owned by one task (none lost, none returned
\* twice).
C6_PermitLifetime ==
    /\ \A t \in TaskIds : t \in held <=> pc[t] \in {"connecting", "detecting"}
    /\ permits >= 0
    /\ permits + Cardinality(held) = max_connections

AllResults == UNION { { results[ti][i] : i \in 1..Len(results[ti]) } : ti \in DOMAIN results }

\* the three outcomes have happened and every permit is back
C6_ThreeOutcomesReleased ==
    /\ \E r \in AllResults : r.error = Some("timeout")
    /\ \E r \in AllResults : r.error \notin {None, Some("timeout")}
    /\ \E r \in AllResults : r.open
    /\ permits = max_connections
    /\ held = {}

\* C7: a task takes its permit only after its acquire() has returned; a task
\* inside acquire() owns no permit.
C7_RateBeforePermit ==
    /\ [](\A t \in TaskIds : pc[t] \in RlStates => t \notin held)
    /\ [][\A t \in TaskIds : (t \notin held /\ t \in held') => pc[t] = "sem_wait"]_vars

\* a task sleeps in acquire() while another one uses the only permit
C7_SleeperHoldsNothing ==
    \E t, u \in TaskIds :
        /\ pc[t] = "rl_sleep"
        /\ pc[u] = "connecting"
        /\ max_connections = 1
        /\ held = {u}

\* C8 as stated: the port tasks of one target in flight never outnumber the
\* configured concurrency, also when it is 0.
C8_InFlightWithinConcurrency ==
    \A ti \in 1..Len(targets) : Cardinality(InFlight(ti)) <= concurrency

\* C9: the list scan_ports returns holds one result per port of the list, of
\* its target, and nothing else.
C9_OneResultPerPort ==
    \A ti \in 1..Len(targets) :
        tstate[ti] = "returned" =>
            /\ Len(out[ti]) = Len(ports)
            /\ \A p \in 1..Len(ports) :
                 Cardinality({ i \in 1..Len(out[ti]) : out[ti][i].port = ports[p] }) = 1
            /\ \A i \in 1..Len(out[ti]) : out[ti][i].target = targets[ti]

\* a target with three ports has returned, with open and closed ports
C9_MixedOutcomesReturned ==
    \E ti \in 1..Len(targets) :
        /\ tstate[ti] = "returned"
        /\ Len(ports) = 3
        /\ \E i, j \in 1..Len(out[ti]) : out[ti][i].open /\ ~out[ti][j].open

\* C10: the list scan_ports returns is sorted ascending by port.
C10_SortedByPort ==
    \A ti \in 1..Len(targets) :
        tstate[ti] = "returned" =>
            \A i, j \in 1..Len(out[ti]) : i < j => out[ti][i].port <= out[ti][j].port

\* the results were pushed in descending order of port and returned ascending
C10_PushedOutOfOrder ==
    \E ti \in 1..Len(targets) :
        /\ tstate[ti] = "returned"
        /\ Len(results[ti]) = 3
        /\ results[ti][1].port > results[ti][2].port
        /\ results[ti][2].port > results[ti][3].port

(***************************************************************************)
(* Properties of scan_one's results and of ProtocolDetector, checked on    *)
(* SpecDetect.                                                             *)
(***************************************************************************)
\* every ScanResult built so far: pushed to a results vector or returned
ResultsBuilt ==
    AllResults \cup UNION { { out[ti][i] : i \in 1..Len(out[ti]) } : ti \in DOMAIN out }

DetectorReturned == det_pc \in {"returned", "done"}

\* C11: every ScanResult the engine builds has: open = false implies protocol
\* and banner absent and error present; open = true implies error absent.
C11_ResultShape ==
    \A r \in ResultsBuilt :
        /\ ~r.open => (r.protocol = None /\ r.banner = None /\ r.error # None)
        /\ r.open => r.error = None

\* scan_ports has returned the result of a connect that failed with a cause
C11_ClosedWithCause ==
    \E ti \in 1..Len(targets) :
        /\ tstate[ti] = "returned"
        /\ \E i \in 1..Len(out[ti]) :
             ~out[ti][i].open /\ out[ti][i].error = Some("Network is unreachable")

\* C12: a connect that times out gives open = false with error "timeout"; a
\* connect that fails gives open = false with the cause as text; a connect
\* that succeeds gives open = true with exactly the pair identify_and_banner
\* returned; identify_and_banner runs only after a connect that succeeded.
C12_OutcomeMapping ==
    /\ det_pc # "idle" => connect_res = <<"ok">>
    /\ \A t \in TaskIds :
         pc[t] = "done" =>
            /\ Len(results[t[1]]) = 1
            /\ connect_res # <<>>
            /\ LET r == results[t[1]][1]
               IN /\ connect_res[1] = "timeout" =>
                        (r = ScanResult(Target(t), Port(t), FALSE, None, None,
                                        Some("timeout")) /\ det_pc = "idle")
                  /\ connect_res[1] = "error" =>
                        (r = ScanResult(Target(t), Port(t), FALSE, None, None,
                                        Some(connect_res[2])) /\ det_pc = "idle")
                  /\ connect_res[1] = "ok" =>
                        r = ScanResult(Target(t), Port(t), TRUE, det_out[1], det_out[2],
                                       None)

\* a connect succeeded and the result carries the protocol and banner of a probe
C12_OpenCarriesProbeResult ==
    \E t \in TaskIds :
        /\ pc[t] = "done"
        /\ connect_res = <<"ok">>
        /\ wire # <<>>
        /\ results[t[1]][1].protocol = Some("Telnet")
        /\ results[t[1]][1].banner # None

\* C13: with the passive flag set, identify_and_banner writes nothing to the
\* connection: no DNS, HTTP, Telnet or TLS probe is sent.
C13_PassiveWritesNothing == passive => wire = <<>>

\* the order of the probes on a port
ProbeOrder(port) ==
    IF port = 53 THEN <<"dns", "http", "telnet", "tls">> ELSE <<"http", "telnet", "tls">>

\* the protocol a probe reports on success
ProbeProtocol(name) ==
    CASE name = "dns" -> "Dns"
      [] name = "http" -> "Http"
      [] name = "telnet" -> "Telnet"
      [] name = "tls" -> "Tls"

NoProbeSucceeded == \A i \in 1..Len(wire) : wire[i][2] = "Err"

\* C14: with the passive flag clear, probes follow an empty passive read in
\* the order DNS (port 53 only), HTTP, Telnet, TLS; the first probe that
\* succeeds ends the detection with its protocol and no later probe is sent;
\* a failed probe leads to the next one; when all have failed the result is
\* (Unknown, no banner).
C14_ProbeOrder ==
    ~passive =>
      \A t \in TaskIds :
        LET order == ProbeOrder(Port(t))
            n == Len(wire)
        IN /\ n <= Len(order)
           /\ \A i \in 1..n : wire[i][1] = order[i]
           /\ \A i \in 1..(n - 1) : wire[i][2] = "Err"
           /\ n > 0 => rx = <<>>
           /\ (n > 0 /\ wire[n][2] = "Ok") =>
                 (DetectorReturned /\ det_out[1] = Some(ProbeProtocol(wire[n][1])))
           /\ (n > 0 /\ wire[n][2] = "Err" /\ n < Len(order)) => det_pc = order[n + 1]
           /\ (n = Len(order) /\ wire[n][2] = "Err") =>
                 (DetectorReturned /\ det_out = <<Some("Unknown"), None>>)
           /\ (det_pc = "passive_read" \/ (DetectorReturned /\ rx # <<>>)) => n = 0

\* on port 53 all four probes were sent in order and failed
C14_AllFourFailed ==
    /\ ~passive
    /\ DetectorReturned
    /\ Len(wire) = 4
    /\ NoProbeSucceeded
    /\ det_out = <<Some("Unknown"), None>>

EmptyReadNoProbeOn22 ==
    /\ \A t \in TaskIds : Port(t) = 22
    /\ DetectorReturned
    /\ rx = <<>>
    /\ NoProbeSucceeded

\* C15 as stated: an empty passive read on port 22 with no successful probe
\* gives the port hint (Ssh, no banner).
C15_PortHintFallback == EmptyReadNoProbeOn22 => det_out = <<Some("Ssh"), None>>

\* C15, amended: an empty passive read on port 22 with no successful probe
\* gives (Unknown, no banner); on port 22 the result is Ssh only after a
\* non-empty passive read, and then with a banner.
C15_UnknownOn22 ==
    /\ EmptyReadNoProbeOn22 => det_out = <<Some("Unknown"), None>>
    /\ (DetectorReturned /\ (\A t \in TaskIds : Port(t) = 22) /\ det_out[1] = Some("Ssh")) =>
          (rx # <<>> /\ det_out[2] # None)

\* port 22: nothing was read, the three probes failed, the detector returned
C15_Port22AllFailed == EmptyReadNoProbeOn22 /\ Len(wire) = 3

\* the rules of the table, stated on the bytes
PrefixIs(b, p) == Len(b) >= Len(p) /\ \A i \in 1..Len(p) : b[i] = p[i]

Fold(c) == IF c \in 65..90 THEN c + 32 ELSE c

OccursFolded(b, word) ==
    \E k \in 0..(Len(b) - Len(word)) : \A i \in 1..Len(word) : Fold(b[k + i]) = Fold(word[i])

TableProtocol(b, port) ==
    IF PrefixIs(b, <<83, 83, 72, 45>>) THEN "Ssh"
    ELSE IF PrefixIs(b, <<50, 50, 48, 32>>) THEN "Smtp"
    ELSE IF PrefixIs(b, <<72, 84, 84, 80, 47>>) THEN "Http"
    ELSE IF \/ b[1] = 255
            \/ OccursFolded(b, <<108, 111, 103, 105, 110, 58>>)
            \/ OccursFolded(b, <<117, 115, 101, 114, 110, 97, 109, 101, 58>>)
            \/ OccursFolded(b, <<112, 97, 115, 115, 119, 111, 114, 100, 58>>) THEN "Telnet"
    ELSE IF Len(b) >= 2 /\ b[1] = 22 /\ b[2] = 3 THEN "Tls"
    ELSE IF Len(b) >= 14 /\ b[5] >= 128 /\ port = 53 THEN "Dns"
    ELSE IF port \in {80, 8080, 8000, 8888} THEN "Http"
    ELSE IF port \in {443, 8443} THEN "Https"
    ELSE IF port = 22 THEN "Ssh"
    ELSE IF port = 23 THEN "Telnet"
    ELSE IF port \in {25, 587, 465} THEN "Smtp"
    ELSE IF port = 53 THEN "Dns"
    ELSE "Unknown"

\* C16: for every non-empty buffer and port detect_from_bytes gives the
\* protocol of the first rule of the table that matches: "SSH-", "220 ",
\* "HTTP/", telnet (0xFF first or login:/username:/password: in any case),
\* TLS (0x16 0x03), DNS (14 bytes or more, QR bit set, port 53), port hint.
C16_FirstMatchWins ==
    (DetectorReturned /\ rx # <<>>) =>
        \A t \in TaskIds : det_out[1] = Some(TableProtocol(rx, Port(t)))

\* a buffer that starts with "SSH-" and holds "Login:" was classified
C16_SshWithLoginPrompt ==
    /\ DetectorReturned
    /\ rx = <<83, 83, 72, 45>> \o <<76, 111, 103, 105, 110, 58>>
    /\ det_out[1] = Some("Ssh")

\* "SSH-2.0-OpenSSH_8.2p1"
S_SshBanner == <<83, 83, 72, 45, 50, 46, 48, 45, 79, 112, 101, 110, 83, 83, 72, 95, 56, 46, 50, 112, 49>>
\* "220 mail.example.com ESMTP"
S_SmtpBanner == <<50, 50, 48, 32, 109, 97, 105, 108, 46, 101, 120, 97, 109, 112, 108, 101, 46, 99, 111, 109, 32, 69, 83, 77, 84, 80>>
\* "HTTP/1.1 200 OK"
S_HttpBanner == <<72, 84, 84, 80, 47, 49, 46, 49, 32, 50, 48, 48, 32, 79, 75>>
\* "\r\n"
S_CRLF == <<13, 10>>

\* C17 as stated: the SSH example buffer gives Ssh with the banner
\* "SSH-2.0-OpenSSH_8.2p1", without the trailing CR LF; likewise the SMTP and
\* HTTP examples give their text.
C17_BannerWithoutLineEnd ==
    DetectorReturned =>
        /\ rx = SshExample => det_out = <<Some("Ssh"), Some(S_SshBanner)>>
        /\ rx = SmtpExample => det_out = <<Some("Smtp"), Some(S_SmtpBanner)>>
        /\ rx = HttpExample => det_out = <<Some("Http"), Some(S_HttpBanner)>>

\* C17, amended: the SSH example buffer gives Ssh with the whole buffer as
\* banner, the trailing CR LF included; likewise the SMTP and HTTP examples.
C17_BannerIsWholeText ==
    DetectorReturned =>
        /\ rx = SshExample => det_out = <<Some("Ssh"), Some(S_SshBanner \o S_CRLF)>>
        /\ rx = SmtpExample => det_out = <<Some("Smtp"), Some(S_SmtpBanner \o S_CRLF)>>
        /\ rx = HttpExample => det_out = <<Some("Http"), Some(S_HttpBanner \o S_CRLF)>>

\* the SSH example buffer was read and classified
C17_SshExampleRead == DetectorReturned /\ rx = SshExample /\ det_out[1] = Some("Ssh")

\* the decoded text of b without its trailing NULs, stated by its length
LossyTrimmed(b) ==
    LET s == Utf8Lossy(b)
        n == CHOOSE k \in 0..Len(s) :
                /\ k > 0 => s[k] # 0
                /\ \A j \in (k + 1)..Len(s) : s[j] = 0
    IN SubSeq(s, 1, n)

HexChars == <<48, 49, 50, 51, 52, 53, 54, 55, 56, 57, 97, 98, 99, 100, 101, 102>>

\* text is "hex:" and two lowercase hex digits for each of the first 64 bytes
\* of b, with an ellipsis after them when b is longer
IsHexPreview(text, b) ==
    LET take == Min(Len(b), 64)
    IN /\ Len(text) = 4 + 2 * take + (IF Len(b) > 64 THEN 1 ELSE 0)
       /\ SubSeq(text, 1, 4) = <<104, 101, 120, 58>>
       /\ \A i \in 1..take :
             /\ text[3 + 2 * i] = HexChars[(b[i] \div 16) + 1]
             /\ text[4 + 2 * i] = HexChars[(b[i] % 16) + 1]

\* C25: when the passive read gave at least one byte, identify_and_banner
\* has returned without a probe on the wire, with a protocol (that of the
\* table, port hint and Unknown included) and with a banner: the hex preview
\* where the TLS or the DNS rule matched, otherwise the received bytes
\* lossily decoded with their trailing NULs trimmed.
C25_NonEmptyPassiveRead ==
    rx # <<>> =>
        /\ DetectorReturned
        /\ wire = <<>>
        /\ Len(det_out) = 2
        /\ det_out[1] # None
        /\ det_out[2] # None
        /\ \A t \in TaskIds :
              LET proto == TableProtocol(rx, Port(t))
                  hex == \/ proto = "Tls"
                         \/ proto = "Dns" /\ Len(rx) >= 14 /\ rx[5] >= 128
              IN /\ det_out[1] = Some(proto)
                 /\ hex => IsHexPreview(det_out[2][1], rx)
                 /\ ~hex => det_out[2][1] = LossyTrimmed(rx)

\* bytes that match no rule and end in a NUL were read on a port without a
\* hint: Unknown, with the text before the NUL as banner
C25_UnknownWithTrimmedBanner ==
    /\ DetectorReturned
    /\ rx = <<120, 0>>
    /\ det_out = <<Some("Unknown"), Some(<<120>>)>>
    /\ wire = <<>>

\* C29: every result with open = true has a protocol; one without a banner
\* comes from a connection whose passive read was empty and whose probes
\* have all failed, and its protocol is Unknown.
C29_OpenHasProtocol ==
    \A r \in ResultsBuilt :
        r.open =>
            /\ r.protocol # None
            /\ r.banner = None =>
                  /\ rx = <<>>
                  /\ r.protocol = Some("Unknown")
                  /\ NoProbeSucceeded
                  /\ \A t \in TaskIds : Len(wire) = Len(ProbeOrder(Port(t)))

\* scan_ports returned an open result without a banner
C29_OpenWithoutBanner ==
    \E ti \in 1..Len(targets) :
        /\ tstate[ti] = "returned"
        /\ \E i \in 1..Len(out[ti]) : out[ti][i].open /\ out[ti][i].banner = None

\* C18: whatever the number of targets, those being scanned at one time are
\* at most 1000 (and at most max(number of targets, 1)), and every target is
\* in the end scanned exactly once.
C18_BoundedFanOut ==
    /\ [](/\ ActiveCount <= MAX_TARGET_CONCURRENCY
          /\ ActiveCount <= Max(n_targets, 1)
          /\ yielded <= n_targets
          /\ tracked_scans <= 1)
    /\ <>[](completed = n_targets /\ tracked_scans = 1 /\ tracked_done)

\* more targets than the ceiling: 1000 are being scanned and one is waiting
C18_CeilingReached ==
    /\ n_targets > MAX_TARGET_CONCURRENCY
    /\ ActiveCount = MAX_TARGET_CONCURRENCY
    /\ yielded < n_targets

(***************************************************************************)
(* Properties of the streaming loop and of the artifact, checked on        *)
(* SpecMain.                                                               *)
(***************************************************************************)
\* the elements of a JSON array, written one after the other with commas
RECURSIVE CommaSeparated(_)
CommaSeparated(rs) ==
    IF rs = <<>> THEN <<>>
    ELSE IF Len(rs) = 1 THEN ToJson(rs[1])
    ELSE CommaSeparated(SubSeq(rs, 1, Len(rs) - 1)) \o Text(",") \o ToJson(rs[Len(rs)])

\* serde_json::to_string of { "results": rs }
DirectJson(rs) == Text("{\"results\":[") \o CommaSeparated(rs) \o Text("]}")

\* C19: after a run that journaled N results the artifact is {"results":[
\* followed by the N journal lines joined by single commas and ]}: the text a
\* direct serialization of those N results gives, every object once and
\* unaltered; for N = 0 it is {"results":[]}.
C19_ArtifactIsDirectJson ==
    main_pc = "written" =>
        /\ artifact = DirectJson(emitted)
        /\ emitted = <<>> => artifact = Text("{\"results\":[") \o Text("]}")

\* the artifact of a run that journaled two results or more, one of them with
\* a banner that holds a line end
C19_JournaledBannerWithLineEnd ==
    /\ main_pc = "written"
    /\ Len(emitted) >= 2
    /\ \E i \in 1..Len(emitted) :
         emitted[i].banner # None /\ \E k \in 1..Len(emitted[i].banner[1]) :
                                        emitted[i].banner[1][k] = 10

\* C20: in streaming JSON mode the array is opened before the first element
\* and closed after the last, with a comma before every element but the
\* first, for any number of elements, none included; the elements printed
\* are the lines of the journal, in the same order.
C20_StreamedArray ==
    json =>
        /\ main_pc = "start" => stdout = <<>>
        /\ main_pc \in {"poll", "emit"} =>
              stdout = Text("{\"results\":[") \o CommaSeparated(emitted)
        /\ main_pc \in {"reassemble", "written"} => stdout = DirectJson(emitted) \o <<10>>
        /\ Lines(journal) = [i \in 1..Len(emitted) |-> ToJson(emitted[i])]

\* with --json and --open-only, a target's list was emptied by the filter and
\* two elements or more of another target were streamed
C20_FilteredListAndCommas ==
    /\ json
    /\ open_only
    /\ main_pc = "written"
    /\ Len(emitted) >= 2
    /\ \E ti \in 1..Len(targets) : \A i \in 1..Len(out[ti]) : ~out[ti][i].open

\* the text word occurs in text
Occurs(text, word) ==
    \E k \in 0..(Len(text) - Len(word)) :
        text[k + 1] = word[1] /\ SubSeq(text, k + 1, k + Len(word)) = word

\* "open":false as it stands in a serialized ScanResult
S_OpenFalse == Text(",\"open\":") \o Text("false")

LoopOver == main_pc \in {"reassemble", "written", "done"}

\* C21: with --open-only no result with open = false is in the journal, on
\* standard output (JSON or human-readable) or in the artifact; without it
\* every result of every list scan_ports returned is in the journal exactly
\* once when the loop is over.
C21_OpenOnlyFilter ==
    /\ open_only =>
          /\ \A i \in 1..Len(emitted) : emitted[i].open
          /\ ~Occurs(journal, S_OpenFalse)
          /\ ~Occurs(stdout, S_OpenFalse)
          /\ ~Occurs(stdout, Text(" closed"))
          /\ ~Occurs(artifact, S_OpenFalse)
    /\ (~open_only /\ LoopOver) =>
          LET lines == Lines(journal)
          IN /\ \A ti \in 1..Len(targets) :
                   /\ Len(out[ti]) = Len(ports)
                   /\ \A i \in 1..Len(out[ti]) :
                         Cardinality({ k \in 1..Len(lines) :
                                         lines[k] = ToJson(out[ti][i]) }) = 1
             /\ Len(lines) = Len(targets) * Len(ports)

\* with --open-only the artifact was written for lists that held closed and
\* open results: the open ones went through, the closed ones did not
C21_ClosedDroppedOpenKept ==
    /\ open_only
    /\ main_pc = "written"
    /\ \E ti \in 1..Len(targets) : \E i \in 1..Len(out[ti]) : ~out[ti][i].open
    /\ \E ti \in 1..Len(targets) : \E i \in 1..Len(out[ti]) : out[ti][i].open
    /\ emitted # <<>>

\* the values the protocol field may have: null, or a lowercase tag as a
\* JSON string
ProtocolTexts ==
    {Text("null")} \cup { JsonName(tag) : tag \in {"http", "https", "ssh", "smtp", "tls",
                                                   "telnet", "dns", "mysql", "unknown"} }

\* wherever text has a protocol field, its value is one of ProtocolTexts
ProtocolFieldsLowercase(text) ==
    LET field == Text(",\"protocol\":")
    IN \A k \in 0..(Len(text) - Len(field)) :
          SubSeq(text, k + 1, k + Len(field)) = field =>
             \E v \in ProtocolTexts :
                SubSeq(text, k + Len(field) + 1, k + Len(field) + Len(v)) = v

\* C24: in every serialized ScanResult (journal line, streamed element,
\* element of the artifact) the protocol field is null or one of the
\* lowercase tags http, https, ssh, smtp, tls, telnet, dns, mysql, unknown.
C24_LowercaseProtocol ==
    /\ ProtocolFieldsLowercase(journal)
    /\ json => ProtocolFieldsLowercase(stdout)
    /\ ProtocolFieldsLowercase(artifact)

\* the place of the target named name in the order of completion
CompletionRank(name) ==
    CHOOSE k \in 1..Len(finished) : targets[finished[k]] = name

\* where word first starts in text
FirstAt(text, word) ==
    CHOOSE k \in 1..Len(text) :
        /\ text[k] = word[1]
        /\ SubSeq(text, k, k + Len(word) - 1) = word
        /\ \A j \in 1..(k - 1) :
              text[j] = word[1] => SubSeq(text, j, j + Len(word) - 1) # word

\* the results of target ti that pass the filter, as scan_ports returned them
KeptOf(ti) == SelectSeq(out[ti], LAMBDA r : ~open_only \/ r.open)

\* C27: a result is journaled only after the scan_ports of its target has
\* returned; the results of a target form one block, by ascending port, which
\* is complete before the next list is taken; the blocks follow one another
\* in the order the targets completed, never interleaved; the lines of the
\* journal and the elements of the artifact are in this order.
C27_BlocksInCompletionOrder ==
    /\ \A i \in 1..Len(emitted) :
          \E k \in 1..Len(finished) :
              /\ targets[finished[k]] = emitted[i].target
              /\ tstate[finished[k]] = "returned"
              /\ finished[k] \in taken
    /\ \A i, j \in 1..Len(emitted) :
          i < j =>
             /\ CompletionRank(emitted[i].target) <= CompletionRank(emitted[j].target)
             /\ emitted[i].target = emitted[j].target => emitted[i].port < emitted[j].port
    /\ main_pc # "emit" =>
          \A ti \in taken :
              SelectSeq(emitted, LAMBDA r : r.target = targets[ti]) = KeptOf(ti)
    /\ Lines(journal) = [i \in 1..Len(emitted) |-> ToJson(emitted[i])]
    /\ main_pc \in {"written", "done"} =>
          \A i, j \in 1..Len(emitted) :
              i < j => /\ Occurs(artifact, ToJson(emitted[i]))
                       /\ Occurs(artifact, ToJson(emitted[j]))
                       /\ FirstAt(artifact, ToJson(emitted[i]))
                             < FirstAt(artifact, ToJson(emitted[j]))

\* the second target completed first: its block of two results is ahead of
\* the first target's in the journal and in the artifact
C27_SecondTargetFirst ==
    /\ main_pc = "written"
    /\ finished = <<2, 1>>
    /\ Len(emitted) = 4
    /\ emitted[1].target = targets[2]
    /\ emitted[3].target = targets[1]

\* every scan_ports has returned a result for each of its ports, no task is
\* left at a wait and every permit is back
RunComplete ==
    /\ \A ti \in 1..Len(targets) :
          /\ tstate[ti] = "returned"
          /\ Len(out[ti]) = Len(ports)
          /\ \A i \in 1..Len(ports) : out[ti][i].port = ports[i]
    /\ \A t \in TaskIds : pc[t] = "done"
    /\ held = {}
    /\ permits = max_connections
    /\ rl_guard = NoTask

\* C28: with a capacity of at least 1 and a per-target concurrency of at
\* least 1, under a fair scheduler and connects that return, the run comes to
\* an end: every task gets through the per-target slot, the rate limiter and
\* the semaphore, every (target, port) has its result, and no permit is out.
C28_RunTerminates ==
    (max_connections >= 1 /\ concurrency >= 1) => <>[]RunComplete

\* two port tasks that shared one slot, one token a second and one permit
\* have both finished
C28_ContendedRunComplete ==
    /\ RunComplete
    /\ Cardinality(TaskIds) = 2
    /\ concurrency = 1
    /\ max_connections = 1
    /\ rate_per_sec = 1

(***************************************************************************)
(* Properties of the temporary file, checked on SpecJournal.               *)
(***************************************************************************)
\* the files of the temporary directory this run made
RunFiles == { f \in tmp_files : f[2] = "run" }

NothingDone ==
    /\ \A ti \in 1..Len(targets) : tstate[ti] = "queued" /\ out[ti] = <<>>
    /\ stdout = <<>>
    /\ journal = <<>>
    /\ artifact = <<>>

\* C22: the temporary file is opened at most 3 times, and only a file the
\* run made itself is used; when the 3 attempts have failed main ends with a
\* fatal error before any scan has started, anything was printed or the
\* artifact was written; after an attempt that succeeded there is no further
\* attempt and exactly one file of the run exists.
C22_TempFileCreation ==
    /\ attempt <= TempAttempts
    /\ main_pc = "create" => (tmp_path = None /\ RunFiles = {} /\ NothingDone)
    /\ (attempt = TempAttempts /\ tmp_path = None) => main_pc \in {"create", "fatal"}
    /\ main_pc = "fatal" =>
          /\ attempt = TempAttempts
          /\ tmp_path = None
          /\ RunFiles = {}
          /\ NothingDone
          /\ stderr # <<>>
    /\ main_pc \notin {"create", "fatal"} =>
          /\ tmp_path # None
          /\ attempt = tmp_path[1] + 1
          /\ <<tmp_path[1], "other">> \notin tmp_files
          /\ main_pc # "done" => RunFiles = {<<tmp_path[1], "run">>}

\* three attempts failed, one of them on a name that exists, and main ended
\* with the fatal error
C22_AllAttemptsFailed ==
    /\ main_pc = "fatal"
    /\ attempt = TempAttempts
    /\ \E a \in 0..(TempAttempts - 1) : <<a, "other">> \in tmp_files

\* C23: the temporary file is there until the artifact is written and is
\* removed after it; when the removal fails the run still ends with success,
\* the artifact as written, and a warning on standard error.
C23_RemovalNotFatal ==
    /\ main_pc \in {"start", "poll", "emit", "reassemble", "written"} =>
          (<<tmp_path[1], "run">> \in tmp_files /\ stderr = <<>>)
    /\ main_pc = "fatal" => (tmp_path = None /\ artifact = <<>>)
    /\ main_pc = "done" =>
          /\ artifact = DirectJson(emitted)
          /\ \/ RunFiles = {} /\ stderr = <<>>
             \/ /\ RunFiles = {<<tmp_path[1], "run">>}
                /\ stderr = <<"warning: failed to remove temp file">>

\* the removal failed after an artifact with a result was written, and main
\* returned Ok
C23_RemovalFailed ==
    /\ main_pc = "done"
    /\ RunFiles # {}
    /\ emitted # <<>>
    /\ artifact # <<>>

====
